---- MODULE Spec2Model ----
(***************************************************************************)
(* Watch-party synchronisation server (server/src/index.ts, the coalescing *)
(* server of lines 1-344): the HLC comparator, the last-writer-wins merge, *)
(* the session registry (sessions, latestState), the broadcast coalescer   *)
(* (pending and its setTimeout callbacks) and the per-connection handlers. *)
(***************************************************************************)
EXTENDS Integers, Sequences, FiniteSets, TLC

(***************************************************************************)
(* Bounds of the model.                                                    *)
(***************************************************************************)
MaxP == 2
MaxL == 1
MaxNow == 2
NumConns == 2
MaxPlan == 3
MaxCalls == 3
MaxSockets == 3

(***************************************************************************)
(* Strings.  A JavaScript string is modelled as its sequence of UTF-16     *)
(* code units.  The ids of the model:                                      *)
(*   <<97>>       "a"                                                      *)
(*   <<66>>       "B"                                                      *)
(*   <<233>>      U+00E9, e with acute, precomposed                        *)
(*   <<101, 769>> "e" followed by U+0301 COMBINING ACUTE ACCENT            *)
(***************************************************************************)
StrA == <<97>>
StrB == <<66>>
StrEComposed == <<233>>
StrEDecomposed == <<101, 769>>

Strings == {StrA, StrB, StrEComposed, StrEDecomposed}

\* Canonical decomposition (NFD) of a string: U+00E9 decomposes to U+0065 U+0301.
RECURSIVE NFD(_)
NFD(s) ==
  IF s = <<>> THEN <<>>
  ELSE (IF Head(s) = 233 THEN <<101, 769>> ELSE <<Head(s)>>) \o NFD(Tail(s))

\* Collation element <<primary, secondary, tertiary>> of a code unit in the
\* root collation: letters differ at the primary level, accents at the
\* secondary level, case at the tertiary level; 0 means ignorable at that level.
CollationElement(cu) ==
  CASE cu = 97  -> <<1, 1, 1>>
    [] cu = 65  -> <<1, 1, 2>>
    [] cu = 98  -> <<2, 1, 1>>
    [] cu = 66  -> <<2, 1, 2>>
    [] cu = 101 -> <<3, 1, 1>>
    [] cu = 69  -> <<3, 1, 2>>
    [] cu = 769 -> <<0, 2, 1>>

\* The sort key of a string at one level: its non-ignorable weights in order.
RECURSIVE LevelKey(_, _)
LevelKey(s, level) ==
  IF s = <<>> THEN <<>>
  ELSE LET w == CollationElement(Head(s))[level]
       IN (IF w = 0 THEN <<>> ELSE <<w>>) \o LevelKey(Tail(s), level)

\* Comparison of two weight sequences, element by element; a proper prefix
\* is smaller.
RECURSIVE SeqCompare(_, _)
SeqCompare(x, y) ==
  IF x = <<>> /\ y = <<>> THEN 0
  ELSE IF x = <<>> THEN -1
  ELSE IF y = <<>> THEN 1
  ELSE IF Head(x) < Head(y) THEN -1
  ELSE IF Head(x) > Head(y) THEN 1
  ELSE SeqCompare(Tail(x), Tail(y))

\* String.prototype.localeCompare: canonically equivalent strings compare
\* equal; otherwise the first level at which the sort keys differ decides.
localeCompare(x, y) ==
  LET nx == NFD(x)
      ny == NFD(y)
      c1 == SeqCompare(LevelKey(nx, 1), LevelKey(ny, 1))
      c2 == SeqCompare(LevelKey(nx, 2), LevelKey(ny, 2))
      c3 == SeqCompare(LevelKey(nx, 3), LevelKey(ny, 3))
  IN IF c1 # 0 THEN c1 ELSE IF c2 # 0 THEN c2 ELSE c3

(***************************************************************************)
(* HLC, PlayheadState, compareHLC, mergeState.                             *)
(***************************************************************************)
HLCs == [p : 1..MaxP, l : 0..MaxL, c : Strings]

compareHLC(a, b) ==
  IF a.p # b.p THEN a.p - b.p
  ELSE IF a.l # b.l THEN a.l - b.l
  ELSE localeCompare(a.c, b.c)

\* The value of an absent map entry or object field.
Undefined == [undefined |-> TRUE]

\* null, as distinct from undefined.
Null == [null |-> TRUE]

\* mergeState with the tie given to the update (>= for >).
mergeStateTieToUpdate(current, update) ==
  IF current = Undefined THEN update
  ELSE IF compareHLC(update.ts, current.ts) >= 0 THEN update ELSE current

\* mergeState with the comparison's arguments exchanged.
mergeStateExchanged(current, update) ==
  IF current = Undefined THEN update
  ELSE IF compareHLC(current.ts, update.ts) > 0 THEN update ELSE current

mergeState(current, update) ==
  IF current = Undefined THEN update
  ELSE IF compareHLC(update.ts, current.ts) > 0 THEN update ELSE current

(***************************************************************************)
(* Inputs of the server model.                                             *)
(***************************************************************************)
Conns == 1..NumConns
SessionIds == {StrA, StrB}
\* The session the single-session specifications drive.
FocusSessions == {StrA}
\* The origin id of the updates: the session's own id, as in the state that
\* CREATE_SESSION stores, so that an update can tie with that state.
OriginIds == FocusSessions
Urls == {"u1"}
Payloads == {[pos |-> 0, playing |-> FALSE], [pos |-> 30, playing |-> TRUE]}

\* The PlayheadState values a CRDT_UPDATE frame carries.
UpdateStates ==
  {[ts |-> h, pos |-> pl.pos, playing |-> pl.playing, url |-> u] :
     h \in [p : 1..MaxP, l : 0..MaxL, c : OriginIds], pl \in Payloads, u \in Urls}

(***************************************************************************)
(* State of the server.                                                    *)
(***************************************************************************)
VARIABLES
  sessions,     \* Map<string, Set<WebSocket>>: a function on the ids it holds
  latestState,  \* Map<string, PlayheadState>
  pending,      \* Map<string, Message>: the coalescer's pending broadcasts
  timers,       \* per session id, the setTimeout callbacks not yet run
  readyState,   \* per connection: "NONE" (not accepted yet), "OPEN", "CLOSING",
                \* "CLOSED"
  now,          \* the value Date.now() returns
  sent,         \* the frames the last handler passed to ws.send: {[to, msg]}
  last,         \* the last handler that ran, and what it found

  \* Observers of a run of the server (they never feed back into it).
  seen,         \* the CRDT_UPDATE states delivered to the session so far
  start,        \* the session's state when the first of them was delivered
  idem,         \* the last delivery: its state, and mergeState applied once and twice
  burst,        \* per open window: the state before it, and all updates merged
  opened,       \* per open window: the subscriber set when the window opened
  merged,       \* per session with state: every state it was given, merged
  event,        \* what the last step was given: the update a connection sent,
                \* the window a timer closed, the sessions a close evicted

  creators,     \* per session: the connections that sent CREATE_SESSION for it
                \* and never JOIN_SESSION
  owed,         \* per window that the first update of a session opened: the
                \* connections that had joined the session before, and
                \* whether the window's timer has just fired

  \* State of one WSClient (src/utils/websocket.ts).
  clientState,  \* 'idle' | 'connecting' | 'ready' | 'closed'
  queue,        \* string[]: the frames waiting for the socket to open
  logical,      \* the logical counter
  clientPending, \* {sessionId, state} | null
  flushTimer,   \* number | null: TRUE while the flush timeout is outstanding
  wire,         \* the frames given to WebSocket.send, in order
  clientLast,   \* the last step of the client, and what it did
  playheadState, \* WatchSession: the state handed to the player, pos in 1/1000 s
  watchUrl,     \* WatchSession: the url state
  captured,     \* WatchSession: the playheadState the registered handlers closed over
  watchLast,    \* the last message WatchSession handled, and when
  lived,        \* per session id, the states stored since its last eviction
  stale,        \* per session id, the states stored before its last eviction
                \* and not stored again since
  lastMsg,      \* per connection and session id, the state of the last message
                \* sent to it about the session
  joins,        \* per connection and session id, the JOIN_SESSION and
                \* CREATE_SESSION frames handled: 0, 1, or 2 for more
  dSessions,    \* the immediate-broadcast draft: its sessions map
  dLatestState, \* the draft's latestState map
  dSent,        \* the frames the draft's last handler sent
  dCalled,      \* per session id, the states the draft has passed to broadcast
  dDelivered,   \* per session id, the states of the STATE_BROADCAST frames the
                \* draft has sent to a connection
  sockets,      \* the WebSockets a WSClient has constructed: their readyState
  thisWs,       \* this.ws: an index into sockets, or Null
  handed,       \* the frames handed to send, in call order
  queuedCalls,  \* for each frame of queue, the send call it came from
  wireCalls,    \* for each frame of wire, the socket it went out on and
                \* the send call it came from
  lastBroadcast, \* per connection and session id, the ts of the last
                \* STATE_BROADCAST sent to it

  \* Inputs and results of the pure functions.
  ha, hb, hc,   \* three HLC values
  cmp,          \* compareHLC applied to them
  ms, mu1, mu2, \* a current state (or Undefined) and two updates
  mres          \* mergeState applied to them

serverVars == <<sessions, latestState, pending, timers, readyState, now, sent, last>>
orderVars == <<seen, start, idem>>
hlcVars == <<ha, hb, hc, cmp>>
mergeVars == <<ms, mu1, mu2, mres>>
windowVars == <<burst, opened, merged, event>>
joinVars == <<creators, owed>>
clientVars == <<clientState, queue, logical, clientPending, flushTimer, wire, clientLast>>
watchVars == <<playheadState, watchUrl, captured, watchLast>>
traceVars == <<lived, stale, lastMsg, lastBroadcast>>
subVars == <<joins>>
draftVars == <<dSessions, dLatestState, dSent, dCalled, dDelivered>>
socketVars == <<sockets, thisWs, handed, queuedCalls, wireCalls>>
auxVars == <<watchVars, traceVars, subVars, draftVars, socketVars>>
vars == <<serverVars, orderVars, windowVars, joinVars, clientVars, auxVars, hlcVars, mergeVars>>

\* Map.get, Map.set, Map.delete on a map held as a function.
Get(map, k) == IF k \in DOMAIN map THEN map[k] ELSE Undefined
Put(map, k, v) == [x \in DOMAIN map \cup {k} |-> IF x = k THEN v ELSE map[x]]
Delete(map, k) == [x \in DOMAIN map \ {k} |-> map[x]]
EmptyMap == [x \in {} |-> Undefined]

ServerInit ==
  /\ sessions = EmptyMap
  /\ latestState = EmptyMap
  /\ pending = EmptyMap
  /\ timers = [sid \in SessionIds |-> 0]
  /\ readyState = [c \in Conns |-> "NONE"]
  /\ now = 1
  /\ sent = {}
  /\ last = [op |-> "init"]

\* wss.on('connection'): a socket is accepted and its handlers registered.
Connect(ws) ==
  /\ readyState[ws] = "NONE"
  /\ readyState' = [readyState EXCEPT ![ws] = "OPEN"]
  /\ sent' = {}
  /\ last' = [op |-> "connection"]
  /\ UNCHANGED <<sessions, latestState, pending, timers, now>>

\* The subscription with add(ws) removing a connection the set already holds.
SubscribeToggle(ws, sessionId) ==
  IF sessionId \in DOMAIN sessions /\ ws \in sessions[sessionId]
  THEN Put(sessions, sessionId, sessions[sessionId] \ {ws})
  ELSE Put(sessions, sessionId,
           (IF sessionId \in DOMAIN sessions THEN sessions[sessionId] ELSE {}) \cup {ws})

\* sessions.has(sessionId) || sessions.set(sessionId, new Set()); then add(ws).
Subscribe(ws, sessionId) ==
  Put(sessions, sessionId, Get(Put(sessions, sessionId,
        IF sessionId \in DOMAIN sessions THEN sessions[sessionId] ELSE {}),
      sessionId) \cup {ws})

\* case 'CREATE_SESSION' merging the initial state into the stored one.
CreateSessionMerged(ws, sessionId, url) ==
  LET initial == [ts |-> [p |-> now, l |-> 0, c |-> sessionId],
                  pos |-> 0, playing |-> FALSE, url |-> url]
  IN /\ readyState[ws] = "OPEN"
     /\ sessions' = Subscribe(ws, sessionId)
     /\ latestState' = Put(latestState, sessionId,
                           mergeState(Get(latestState, sessionId), initial))
     /\ sent' = {[to |-> ws,
                  msg |-> [type |-> "SESSION_CREATED", sessionId |-> sessionId,
                           state |-> initial]]}
     /\ last' = [op |-> "CREATE_SESSION", sessionId |-> sessionId,
                 had |-> sessionId \in DOMAIN latestState,
                 changed |-> Get(latestState, sessionId) # initial]
     /\ UNCHANGED <<pending, timers, readyState, now>>

\* case 'CREATE_SESSION' without sessions.get(sessionId)!.add(ws).
CreateSessionNoSubscribe(ws, sessionId, url) ==
  LET initial == [ts |-> [p |-> now, l |-> 0, c |-> sessionId],
                  pos |-> 0, playing |-> FALSE, url |-> url]
  IN /\ readyState[ws] = "OPEN"
     /\ sessions' = Put(sessions, sessionId,
                        IF sessionId \in DOMAIN sessions THEN sessions[sessionId] ELSE {})
     /\ latestState' = Put(latestState, sessionId, initial)
     /\ sent' = {[to |-> ws,
                  msg |-> [type |-> "SESSION_CREATED", sessionId |-> sessionId,
                           state |-> initial]]}
     /\ last' = [op |-> "CREATE_SESSION", sessionId |-> sessionId,
                 had |-> sessionId \in DOMAIN latestState,
                 changed |-> Get(latestState, sessionId) # initial]
     /\ UNCHANGED <<pending, timers, readyState, now>>

\* case 'CREATE_SESSION'
CreateSession(ws, sessionId, url) ==
  LET initial == [ts |-> [p |-> now, l |-> 0, c |-> sessionId],
                  pos |-> 0, playing |-> FALSE, url |-> url]
  IN /\ readyState[ws] = "OPEN"
     /\ sessions' = Subscribe(ws, sessionId)
     /\ latestState' = Put(latestState, sessionId, initial)
     /\ sent' = {[to |-> ws,
                  msg |-> [type |-> "SESSION_CREATED", sessionId |-> sessionId,
                           state |-> initial]]}
     /\ last' = [op |-> "CREATE_SESSION", sessionId |-> sessionId,
                 had |-> sessionId \in DOMAIN latestState,
                 changed |-> Get(latestState, sessionId) # initial]
     /\ UNCHANGED <<pending, timers, readyState, now>>

\* snapshot.url ?? ''
UrlOf(snapshot) == IF "url" \in DOMAIN snapshot THEN snapshot.url ELSE ""

\* case 'JOIN_SESSION' sending the snapshot to every subscriber of the session.
JoinSessionToAll(ws, sessionId) ==
  LET snapshot == Get(latestState, sessionId)
  IN /\ readyState[ws] = "OPEN"
     /\ sessions' = Subscribe(ws, sessionId)
     /\ sent' = IF snapshot # Undefined
                THEN {[to |-> w,
                       msg |-> [type |-> "SESSION_SNAPSHOT", sessionId |-> sessionId,
                                state |-> snapshot, url |-> UrlOf(snapshot)]] :
                        w \in Subscribe(ws, sessionId)[sessionId]}
                ELSE {}
     /\ last' = [op |-> "JOIN_SESSION", sessionId |-> sessionId,
                 had |-> snapshot # Undefined]
     /\ UNCHANGED <<latestState, pending, timers, readyState, now>>

\* case 'JOIN_SESSION' registering the connection only when the session has state.
JoinSessionKnownOnly(ws, sessionId) ==
  LET snapshot == Get(latestState, sessionId)
  IN /\ readyState[ws] = "OPEN"
     /\ sessions' = IF snapshot # Undefined THEN Subscribe(ws, sessionId) ELSE sessions
     /\ sent' = IF snapshot # Undefined
                THEN {[to |-> ws,
                       msg |-> [type |-> "SESSION_SNAPSHOT", sessionId |-> sessionId,
                                state |-> snapshot, url |-> UrlOf(snapshot)]]}
                ELSE {}
     /\ last' = [op |-> "JOIN_SESSION", sessionId |-> sessionId,
                 had |-> snapshot # Undefined]
     /\ UNCHANGED <<latestState, pending, timers, readyState, now>>

\* case 'JOIN_SESSION'
JoinSession(ws, sessionId) ==
  LET snapshot == Get(latestState, sessionId)
  IN /\ readyState[ws] = "OPEN"
     /\ sessions' = Subscribe(ws, sessionId)
     /\ sent' = IF snapshot # Undefined
                THEN {[to |-> ws,
                       msg |-> [type |-> "SESSION_SNAPSHOT", sessionId |-> sessionId,
                                state |-> snapshot, url |-> UrlOf(snapshot)]]}
                ELSE {}
     /\ last' = [op |-> "JOIN_SESSION", sessionId |-> sessionId,
                 had |-> snapshot # Undefined]
     /\ UNCHANGED <<latestState, pending, timers, readyState, now>>

\* scheduleBroadcast clearing the timer when it overwrites the pending message.
scheduleBroadcastCancel(sessionId, msg) ==
  IF sessionId \notin DOMAIN pending
  THEN /\ pending' = Put(pending, sessionId, msg)
       /\ timers' = [timers EXCEPT ![sessionId] = @ + 1]
  ELSE /\ pending' = Put(pending, sessionId, msg)
       /\ timers' = [timers EXCEPT ![sessionId] = 0]

\* scheduleBroadcast with one coalescing window for all sessions: a timer is
\* started only when no session has a pending message.
scheduleBroadcastShared(sessionId, msg) ==
  IF pending = EmptyMap
  THEN /\ pending' = Put(pending, sessionId, msg)
       /\ timers' = [timers EXCEPT ![sessionId] = @ + 1]
  ELSE /\ pending' = Put(pending, sessionId, msg)
       /\ UNCHANGED timers

\* scheduleBroadcast calling setTimeout on every call.
scheduleBroadcastEveryCall(sessionId, msg) ==
  /\ pending' = Put(pending, sessionId, msg)
  /\ timers' = [timers EXCEPT ![sessionId] = @ + 1]

\* scheduleBroadcast(sessionId, msg): the pending map and the timers after it.
scheduleBroadcast(sessionId, msg) ==
  IF sessionId \notin DOMAIN pending
  THEN /\ pending' = Put(pending, sessionId, msg)
       /\ timers' = [timers EXCEPT ![sessionId] = @ + 1]
  ELSE /\ pending' = Put(pending, sessionId, msg)
       /\ UNCHANGED timers

\* case 'CRDT_UPDATE' without the test next !== currentState.
CrdtUpdateUnguarded(ws, sessionId, state) ==
  LET currentState == Get(latestState, sessionId)
      next == mergeState(currentState, state)
  IN /\ readyState[ws] = "OPEN"
     /\ latestState' = Put(latestState, sessionId, next)
     /\ scheduleBroadcast(sessionId,
          [type |-> "STATE_BROADCAST", sessionId |-> sessionId, state |-> next])
     /\ sent' = {}
     /\ last' = [op |-> "CRDT_UPDATE", sessionId |-> sessionId,
                 had |-> currentState # Undefined, changed |-> next # currentState]
     /\ UNCHANGED <<sessions, readyState, now>>

\* case 'CRDT_UPDATE'
CrdtUpdate(ws, sessionId, state) ==
  LET currentState == Get(latestState, sessionId)
      next == mergeState(currentState, state)
  IN /\ readyState[ws] = "OPEN"
     /\ IF next # currentState
        THEN /\ latestState' = Put(latestState, sessionId, next)
             /\ scheduleBroadcast(sessionId,
                  [type |-> "STATE_BROADCAST", sessionId |-> sessionId, state |-> next])
        ELSE UNCHANGED <<latestState, pending, timers>>
     /\ sent' = {}
     /\ last' = [op |-> "CRDT_UPDATE", sessionId |-> sessionId,
                 had |-> currentState # Undefined, changed |-> next # currentState]
     /\ UNCHANGED <<sessions, readyState, now>>

\* broadcast without the test ws.readyState === WebSocket.OPEN.
broadcastAnyReadyState(sessionId, message) ==
  IF sessionId \notin DOMAIN sessions THEN {}
  ELSE {[to |-> ws, msg |-> message] : ws \in sessions[sessionId]}

\* broadcast(sessionId, message): the frames it sends.
broadcast(sessionId, message) ==
  IF sessionId \notin DOMAIN sessions THEN {}
  ELSE {[to |-> ws, msg |-> message] :
          ws \in {w \in sessions[sessionId] : readyState[w] = "OPEN"}}

\* The setTimeout callback without the call of broadcast.
TimerFireNoBroadcast(sessionId) ==
  /\ timers[sessionId] > 0
  /\ sent' = {}
  /\ last' = [op |-> "timer", sessionId |-> sessionId]
  /\ pending' = Delete(pending, sessionId)
  /\ timers' = [timers EXCEPT ![sessionId] = @ - 1]
  /\ UNCHANGED <<sessions, latestState, readyState, now>>

\* The setTimeout callback of scheduleBroadcast.
TimerFire(sessionId) ==
  /\ timers[sessionId] > 0
  /\ LET pendingMsg == Get(pending, sessionId)
     IN /\ sent' = broadcast(sessionId, pendingMsg)
        /\ last' = [op |-> "timer", sessionId |-> sessionId]
  /\ pending' = Delete(pending, sessionId)
  /\ timers' = [timers EXCEPT ![sessionId] = @ - 1]
  /\ UNCHANGED <<sessions, latestState, readyState, now>>

\* broadcast with ws.send throwing for the connections in throwing, and no
\* try/catch around it: the exception ends the loop, and in the worst order
\* no other subscriber has been sent the frame.
broadcastUncaught(sessionId, message, throwing) ==
  IF sessionId \notin DOMAIN sessions THEN {}
  ELSE IF \E w \in sessions[sessionId] : readyState[w] = "OPEN" /\ w \in throwing
  THEN {}
  ELSE {[to |-> ws, msg |-> message] :
          ws \in {w \in sessions[sessionId] : readyState[w] = "OPEN"}}

\* broadcast(sessionId, message) with ws.send throwing for the connections in
\* throwing: the catch logs the failure and the loop goes on.
broadcastSendThrows(sessionId, message, throwing) ==
  IF sessionId \notin DOMAIN sessions THEN {}
  ELSE {[to |-> ws, msg |-> message] :
          ws \in {w \in sessions[sessionId] :
                    readyState[w] = "OPEN" /\ w \notin throwing}}

\* The setTimeout callback of scheduleBroadcast, with ws.send throwing for
\* the connections in throwing.
TimerFireSendThrows(sessionId, throwing) ==
  /\ timers[sessionId] > 0
  /\ LET pendingMsg == Get(pending, sessionId)
     IN /\ sent' = broadcastSendThrows(sessionId, pendingMsg, throwing)
        /\ last' = [op |-> "timer", sessionId |-> sessionId,
                    threw |-> {w \in throwing :
                                 /\ sessionId \in DOMAIN sessions
                                 /\ w \in sessions[sessionId]
                                 /\ readyState[w] = "OPEN"}]
  /\ pending' = Delete(pending, sessionId)
  /\ timers' = [timers EXCEPT ![sessionId] = @ - 1]
  /\ UNCHANGED <<sessions, latestState, readyState, now>>

\* The frames a connection can deliver.  json is what JSON.parse makes of the
\* text: "invalid" when it throws, else the kind of value.  An object's
\* properties are undefined or, for type, sessionId and url, a string; its
\* state is undefined, null, a PlayheadState, or a state that lacks ts or pos.
Str(x) == [string |-> x]
IsString(v) == "string" \in DOMAIN v

DecodeStates ==
  {[ts |-> [p |-> 1, l |-> 1, c |-> StrA], pos |-> 30, playing |-> TRUE, url |-> "u1"],
   [ts |-> [p |-> MaxP, l |-> 0, c |-> StrA], pos |-> 0, playing |-> FALSE, url |-> "u1"]}

NoTsState == [pos |-> 30, playing |-> TRUE, url |-> "u1"]
NoPosState == [ts |-> [p |-> MaxP, l |-> 1, c |-> StrA], playing |-> TRUE, url |-> "u1"]

Object(type, sessionId, url, state) ==
  [json |-> "object", type |-> type, sessionId |-> sessionId, url |-> url,
   state |-> state]

RawFrames ==
  {[json |-> "invalid"], [json |-> "null"], [json |-> "number"]}
  \cup {Object(Undefined, Str(sid), Undefined, Undefined) : sid \in FocusSessions}
  \cup {Object(Str("CRDT_UPDATE"), Undefined, Undefined, st) : st \in DecodeStates}
  \cup {Object(Str("PING"), Str(sid), Undefined, Undefined) : sid \in FocusSessions}
  \cup {Object(Str("JOIN_SESSION"), Str(sid), Undefined, Undefined) : sid \in FocusSessions}
  \cup {Object(Str("CREATE_SESSION"), Str(sid), url, Undefined) :
          sid \in FocusSessions, url \in {Undefined} \cup {Str(u) : u \in Urls}}
  \cup {Object(Str("CRDT_UPDATE"), Str(sid), Undefined, st) :
          sid \in FocusSessions,
          st \in DecodeStates \cup {Undefined, Null, NoTsState, NoPosState}}

\* mergeState(currentState, state) raises a TypeError: update.ts read from
\* undefined or null, or a.p / b.p read in compareHLC from an undefined ts.
mergeStateThrows(current, update) ==
  /\ current # Undefined
  /\ \/ update \in {Undefined, Null}
     \/ "ts" \notin DOMAIN update
     \/ "ts" \notin DOMAIN current

\* The frame is returned from without any effect.
Dropped(why) ==
  /\ sent' = {}
  /\ last' = [op |-> "message", outcome |-> "dropped", why |-> why]
  /\ UNCHANGED <<sessions, latestState, pending, timers, readyState, now>>

\* The handler raises a TypeError.  Started as the main module, the process
\* has an 'uncaughtException' listener that logs it and goes on; required
\* from another module it has none, and the process ends with every socket.
Throws(why) ==
  /\ sent' = {}
  /\ \E exited \in BOOLEAN :
       /\ last' = [op |-> "message", outcome |-> "threw", why |-> why,
                   exited |-> exited]
       /\ readyState' = IF exited
                         THEN [w \in Conns |->
                                 IF readyState[w] = "NONE" THEN "NONE" ELSE "CLOSED"]
                         ELSE readyState
  /\ UNCHANGED <<sessions, latestState, pending, timers, now>>

\* case 'CREATE_SESSION' of a message without url: the property is undefined
\* in the stored state, and left out of the SESSION_CREATED frame.
CreateSessionNoUrl(ws, sessionId) ==
  LET initial == [ts |-> [p |-> now, l |-> 0, c |-> sessionId],
                  pos |-> 0, playing |-> FALSE]
  IN /\ readyState[ws] = "OPEN"
     /\ sessions' = Subscribe(ws, sessionId)
     /\ latestState' = Put(latestState, sessionId, initial)
     /\ sent' = {[to |-> ws,
                  msg |-> [type |-> "SESSION_CREATED", sessionId |-> sessionId,
                           state |-> initial]]}
     /\ last' = [op |-> "CREATE_SESSION", sessionId |-> sessionId,
                 had |-> sessionId \in DOMAIN latestState,
                 changed |-> Get(latestState, sessionId) # initial]
     /\ UNCHANGED <<pending, timers, readyState, now>>

\* ws.on('message', raw => ...)
onMessage(ws, raw) ==
  /\ readyState[ws] = "OPEN"
  /\ IF raw.json = "invalid" THEN Dropped("Invalid JSON")
     ELSE IF raw.json = "null" THEN Throws("msg.type")
     ELSE IF raw.json # "object" THEN Dropped("Malformed")
     ELSE IF ~IsString(raw.type) \/ ~IsString(raw.sessionId) THEN Dropped("Malformed")
     ELSE IF raw.type.string = "CREATE_SESSION"
     THEN IF IsString(raw.url)
          THEN CreateSession(ws, raw.sessionId.string, raw.url.string)
          ELSE CreateSessionNoUrl(ws, raw.sessionId.string)
     ELSE IF raw.type.string = "JOIN_SESSION"
     THEN JoinSession(ws, raw.sessionId.string)
     ELSE IF raw.type.string = "CRDT_UPDATE"
     THEN LET currentState == Get(latestState, raw.sessionId.string)
          IN IF mergeStateThrows(currentState, raw.state) THEN Throws("mergeState")
             ELSE IF currentState = Undefined /\ raw.state = Null THEN Throws("next.pos")
             ELSE CrdtUpdate(ws, raw.sessionId.string, raw.state)
     ELSE Dropped("Unknown message type")

\* The sessions that the close of ws leaves without a subscriber.
Emptied(ws) == {sid \in DOMAIN sessions : sessions[sid] = {ws}}

\* ws.on('close') with latestState.delete(sessionId) left out.
CloseKeepState(ws) ==
  /\ readyState[ws] \in {"OPEN", "CLOSING"}
  /\ readyState' = [readyState EXCEPT ![ws] = "CLOSED"]
  /\ sessions' = [sid \in DOMAIN sessions \ Emptied(ws) |-> sessions[sid] \ {ws}]
  /\ sent' = {}
  /\ last' = [op |-> "close"]
  /\ UNCHANGED <<latestState, pending, timers, now>>

\* ws.on('close') without sessions.delete(sessionId).
CloseKeepContainer(ws) ==
  /\ readyState[ws] \in {"OPEN", "CLOSING"}
  /\ readyState' = [readyState EXCEPT ![ws] = "CLOSED"]
  /\ sessions' = [sid \in DOMAIN sessions |-> sessions[sid] \ {ws}]
  /\ latestState' = [sid \in DOMAIN latestState \ Emptied(ws) |-> latestState[sid]]
  /\ sent' = {}
  /\ last' = [op |-> "close"]
  /\ UNCHANGED <<pending, timers, now>>

\* ws.on('close') leaving the loop after the first session that held ws.
CloseOneSession(ws) ==
  LET joined == {sid \in DOMAIN sessions : ws \in sessions[sid]}
      first == IF joined = {} THEN {}
               ELSE {CHOOSE sid \in joined :
                       \A other \in joined : SeqCompare(sid, other) <= 0}
      emptied == Emptied(ws) \cap first
  IN /\ readyState[ws] \in {"OPEN", "CLOSING"}
     /\ readyState' = [readyState EXCEPT ![ws] = "CLOSED"]
     /\ sessions' = [sid \in DOMAIN sessions \ emptied |->
                       IF sid \in first THEN sessions[sid] \ {ws} ELSE sessions[sid]]
     /\ latestState' = [sid \in DOMAIN latestState \ emptied |-> latestState[sid]]
     /\ sent' = {}
     /\ last' = [op |-> "close"]
     /\ UNCHANGED <<pending, timers, now>>

\* ws.on('close'): the socket leaves every session; empty sessions are evicted.
\* The event follows the end of the transport, whether the socket was still
\* open or already closing after an error.
Close(ws) ==
  LET emptied == Emptied(ws)
  IN /\ readyState[ws] \in {"OPEN", "CLOSING"}
     /\ readyState' = [readyState EXCEPT ![ws] = "CLOSED"]
     /\ sessions' = [sid \in DOMAIN sessions \ emptied |-> sessions[sid] \ {ws}]
     /\ latestState' = [sid \in DOMAIN latestState \ emptied |-> latestState[sid]]
     /\ sent' = {}
     /\ last' = [op |-> "close"]
     /\ UNCHANGED <<pending, timers, now>>

\* ws.on('error'): the handler logs and returns.  The socket that reported
\* the error is either still open or already closing when the handler runs.
Error(ws) ==
  /\ readyState[ws] = "OPEN"
  /\ \E rs \in {"OPEN", "CLOSING"} : readyState' = [readyState EXCEPT ![ws] = rs]
  /\ sent' = {}
  /\ last' = [op |-> "error"]
  /\ UNCHANGED <<sessions, latestState, pending, timers, now>>

\* The wall clock advances.
Tick ==
  /\ now < MaxNow
  /\ now' = now + 1
  /\ sent' = {}
  /\ last' = [op |-> "tick"]
  /\ UNCHANGED <<sessions, latestState, pending, timers, readyState>>

OrderIdle == seen = {} /\ start = Undefined /\ idem = Undefined
BurstIdle ==
  burst = EmptyMap /\ opened = EmptyMap /\ merged = EmptyMap /\ event = Undefined
HLCIdle == ha = Undefined /\ hb = Undefined /\ hc = Undefined /\ cmp = Undefined
MergeIdle == ms = Undefined /\ mu1 = Undefined /\ mu2 = Undefined /\ mres = Undefined
JoinIdle == creators = EmptyMap /\ owed = EmptyMap

\* A WSClient after construction.
ClientInit ==
  /\ clientState = "idle"
  /\ queue = <<>>
  /\ logical = 0
  /\ clientPending = Null
  /\ flushTimer = Null
  /\ wire = <<>>
  /\ clientLast = [op |-> "init", call |-> Null, burst |-> 0, out |-> Null]

\* A WatchSession component before its first message.
WatchInit ==
  /\ playheadState = Null
  /\ watchUrl = Null
  /\ captured = Null
  /\ watchLast = [op |-> "init"]

\* Nothing stored, evicted or sent yet.
TraceIdle ==
  /\ lived = [sid \in SessionIds |-> {}]
  /\ stale = [sid \in SessionIds |-> {}]
  /\ lastMsg = [w \in Conns |-> [sid \in SessionIds |-> Undefined]]
  /\ lastBroadcast = [w \in Conns |-> [sid \in SessionIds |-> Undefined]]

SubIdle == joins = [w \in Conns |-> [sid \in SessionIds |-> 0]]

\* The draft after start.
DraftInit ==
  /\ dSessions = EmptyMap
  /\ dLatestState = EmptyMap
  /\ dSent = {}
  /\ dCalled = [sid \in SessionIds |-> {}]
  /\ dDelivered = [sid \in SessionIds |-> {}]

\* A WSClient that has constructed no socket.
SocketInit ==
  /\ sockets = <<>>
  /\ thisWs = Null
  /\ handed = <<>>
  /\ queuedCalls = <<>>
  /\ wireCalls = <<>>

AuxIdle == WatchInit /\ TraceIdle /\ SubIdle /\ DraftInit /\ SocketInit

(***************************************************************************)
(* Spec: the server on one session.                                        *)
(***************************************************************************)
Init ==
  ServerInit /\ OrderIdle /\ BurstIdle /\ JoinIdle /\ ClientInit /\ AuxIdle /\ HLCIdle /\ MergeIdle

\* The observer of a coalescing window: every update that arrives while the
\* window is open, the one that opens it included, merged into the state that
\* preceded the window.
BurstAfterUpdate(sessionId, state) ==
  IF sessionId \in DOMAIN pending
  THEN Put(burst, sessionId, mergeState(burst[sessionId], state))
  ELSE IF sessionId \in DOMAIN pending'
  THEN Put(burst, sessionId, mergeState(Get(latestState, sessionId), state))
  ELSE burst

Unobserved == UNCHANGED <<orderVars, joinVars, clientVars, auxVars, hlcVars, mergeVars>>

\* The steps of Spec: a handler or callback of the server, and what the
\* observers of the windows record of it.
DoConnect(ws) ==
  /\ Connect(ws)
  /\ event' = Undefined
  /\ UNCHANGED <<burst, opened, merged>> /\ Unobserved

DoCreateSession(ws, sid, url) ==
  /\ CreateSession(ws, sid, url)
  /\ merged' = Put(merged, sid, mergeState(Get(merged, sid), latestState'[sid]))
  /\ event' = Undefined
  /\ UNCHANGED <<burst, opened>> /\ Unobserved

DoJoinSession(ws, sid) ==
  /\ JoinSession(ws, sid)
  /\ event' = IF event # Undefined /\ event.op = "close"
               THEN [op |-> "join", evicted |-> event.evicted]
               ELSE Undefined
  /\ UNCHANGED <<burst, opened, merged>> /\ Unobserved

DoCrdtUpdate(ws, sid, state) ==
  /\ CrdtUpdate(ws, sid, state)
  /\ burst' = BurstAfterUpdate(sid, state)
  /\ opened' = IF sid \notin DOMAIN pending /\ sid \in DOMAIN pending'
                THEN Put(opened, sid, IF sid \in DOMAIN sessions
                                      THEN sessions[sid] ELSE {})
                ELSE opened
  /\ merged' = Put(merged, sid, mergeState(Get(merged, sid), state))
  /\ event' = [op |-> "update", from |-> ws, pos |-> state.pos,
                playing |-> state.playing]
  /\ Unobserved

DoTimerFire(sid) ==
  /\ TimerFire(sid)
  /\ burst' = Delete(burst, sid)
  /\ opened' = Delete(opened, sid)
  /\ event' = [op |-> "fired", sessionId |-> sid, opened |-> opened[sid],
                msg |-> pending[sid]]
  /\ UNCHANGED merged /\ Unobserved

DoClose(ws) ==
  /\ Close(ws)
  /\ merged' = [sid \in DOMAIN merged \ Emptied(ws) |-> merged[sid]]
  /\ event' = [op |-> "close", evicted |-> Emptied(ws) \cap DOMAIN latestState]
  /\ UNCHANGED <<burst, opened>> /\ Unobserved

DoError(ws) ==
  /\ Error(ws)
  /\ event' = Undefined
  /\ UNCHANGED <<burst, opened, merged>> /\ Unobserved

DoTick ==
  /\ Tick
  /\ event' = Undefined
  /\ UNCHANGED <<burst, opened, merged>> /\ Unobserved

Next ==
  \/ \E ws \in Conns : DoConnect(ws)
  \/ \E ws \in Conns, sid \in FocusSessions, url \in Urls : DoCreateSession(ws, sid, url)
  \/ \E ws \in Conns, sid \in FocusSessions : DoJoinSession(ws, sid)
  \/ \E ws \in Conns, sid \in FocusSessions, state \in UpdateStates :
       DoCrdtUpdate(ws, sid, state)
  \/ \E sid \in FocusSessions : DoTimerFire(sid)
  \/ \E ws \in Conns : DoClose(ws)
  \/ \E ws \in Conns : DoError(ws)
  \/ DoTick

Spec == Init /\ [][Next]_vars

\* SpecLive: Spec with the event loop running every timer callback that is
\* due (setTimeout callbacks are never cleared).
SpecLive == Spec /\ \A sid \in FocusSessions : WF_vars(DoTimerFire(sid))

(***************************************************************************)
(* SpecJoin: connections creating and joining one session, a few updates,  *)
(* the timer callbacks run when due.                                       *)
(***************************************************************************)
\* The updates of SpecJoin.
JoinUpdates ==
  {st \in UpdateStates :
     \/ st.ts.p = 1 /\ st.ts.l = 1 /\ st.playing
     \/ st.ts.p = MaxP /\ st.ts.l = 0 /\ ~st.playing}

\* The entry of a map of sets, empty if absent.
Members(map, k) == IF k \in DOMAIN map THEN map[k] ELSE {}

\* A map of sets without one member.
Without(map, ws) == [k \in DOMAIN map |-> map[k] \ {ws}]

JoinFrame == UNCHANGED <<orderVars, windowVars, clientVars, auxVars, hlcVars, mergeVars>>

\* The windows whose timer has not fired yet.
Unpaid(map) == [k \in {x \in DOMAIN map : ~map[x].paid} |-> map[k]]

\* The connections that the window of the session owes its broadcast.
OwedTo(sid) == IF sid \in DOMAIN owed /\ ~owed[sid].paid THEN owed[sid].conns ELSE {}

JConnect(ws) == Connect(ws) /\ owed' = Unpaid(owed) /\ UNCHANGED creators /\ JoinFrame

JCreateSession(ws, sid, url) ==
  /\ CreateSession(ws, sid, url)
  /\ creators' = Put(creators, sid, Members(creators, sid) \cup {ws})
  /\ owed' = Unpaid(owed)
  /\ JoinFrame

JJoinSession(ws, sid) ==
  /\ JoinSession(ws, sid)
  /\ creators' = Put(creators, sid, Members(creators, sid) \ {ws})
  /\ owed' = Unpaid(owed)
  /\ JoinFrame

\* An update that creates the session's state owes its broadcast to the
\* connections that joined before.
JCrdtUpdate(ws, sid, state) ==
  /\ CrdtUpdate(ws, sid, state)
  /\ owed' = IF sid \notin DOMAIN latestState
              THEN Put(Unpaid(owed), sid,
                       [conns |-> Members(sessions, sid), paid |-> FALSE])
              ELSE Unpaid(owed)
  /\ UNCHANGED creators /\ JoinFrame

JTimerFire(sid) ==
  /\ TimerFire(sid)
  /\ owed' = IF sid \in DOMAIN Unpaid(owed)
              THEN Put(Unpaid(owed), sid, [conns |-> owed[sid].conns, paid |-> TRUE])
              ELSE Unpaid(owed)
  /\ UNCHANGED creators /\ JoinFrame

JClose(ws) ==
  /\ Close(ws)
  /\ creators' = Without(creators, ws)
  /\ owed' = [k \in DOMAIN Unpaid(owed) |->
                [conns |-> owed[k].conns \ {ws}, paid |-> FALSE]]
  /\ JoinFrame

JTick == Tick /\ owed' = Unpaid(owed) /\ UNCHANGED creators /\ JoinFrame

NextJoin ==
  \/ \E ws \in Conns : JConnect(ws)
  \/ \E ws \in Conns, sid \in FocusSessions, url \in Urls : JCreateSession(ws, sid, url)
  \/ \E ws \in Conns, sid \in FocusSessions : JJoinSession(ws, sid)
  \/ \E ws \in Conns, sid \in FocusSessions, state \in JoinUpdates :
       JCrdtUpdate(ws, sid, state)
  \/ \E sid \in FocusSessions : JTimerFire(sid)
  \/ \E ws \in Conns : JClose(ws)
  \/ JTick

SpecJoin ==
  Init /\ [][NextJoin]_vars /\ \A sid \in FocusSessions : WF_vars(JTimerFire(sid))

(***************************************************************************)
(* SpecSend: one session whose subscribers' sockets can fail: an error     *)
(* leaves a socket closing, and ws.send can throw for any of them.         *)
(***************************************************************************)
SendFrame ==
  UNCHANGED <<orderVars, windowVars, joinVars, clientVars, auxVars, hlcVars, mergeVars>>

NextSend ==
  \/ \E ws \in Conns : Connect(ws) /\ SendFrame
  \/ \E ws \in Conns, sid \in FocusSessions : JoinSession(ws, sid) /\ SendFrame
  \/ \E ws \in Conns, sid \in FocusSessions, state \in JoinUpdates :
       CrdtUpdate(ws, sid, state) /\ SendFrame
  \/ \E sid \in FocusSessions, throwing \in SUBSET Conns :
       TimerFireSendThrows(sid, throwing) /\ SendFrame
  \/ \E ws \in Conns : Error(ws) /\ SendFrame
  \/ \E ws \in Conns : Close(ws) /\ SendFrame

SpecSend == Init /\ [][NextSend]_vars

(***************************************************************************)
(* SpecTwo: two sessions served side by side, each with its own subscriber *)
(* set, stored state, pending message and timer.                           *)
(***************************************************************************)
TwoFrame ==
  UNCHANGED <<orderVars, windowVars, joinVars, clientVars, auxVars, hlcVars, mergeVars>>

NextTwo ==
  \/ \E ws \in Conns : Connect(ws) /\ TwoFrame
  \/ \E ws \in Conns, sid \in SessionIds, url \in Urls :
       CreateSession(ws, sid, url) /\ TwoFrame
  \/ \E ws \in Conns, sid \in SessionIds : JoinSession(ws, sid) /\ TwoFrame
  \/ \E ws \in Conns, sid \in SessionIds, state \in JoinUpdates :
       CrdtUpdate(ws, sid, state) /\ TwoFrame
  \/ \E sid \in SessionIds : TimerFire(sid) /\ TwoFrame

SpecTwo == Init /\ [][NextTwo]_vars

(***************************************************************************)
(* SpecClient: one WSClient whose owner calls updateState and disconnect   *)
(* while its socket opens and closes and its flush timer fires.            *)
(***************************************************************************)
clientId == StrB

\* The optional url argument of updateState: undefined, or a string.
ClientUrls == {Undefined} \cup {[string |-> u] : u \in Urls}

\* JSON.stringify(msg): a property whose value is undefined is left out.
stringify(msg) ==
  IF msg.state.url = Undefined
  THEN [type |-> msg.type, sessionId |-> msg.sessionId,
        state |-> [ts |-> msg.state.ts, pos |-> msg.state.pos,
                   playing |-> msg.state.playing]]
  ELSE [type |-> msg.type, sessionId |-> msg.sessionId,
        state |-> [ts |-> msg.state.ts, pos |-> msg.state.pos,
                   playing |-> msg.state.playing, url |-> msg.state.url.string]]

\* WSClient.connect(): the state after it.
connect == IF clientState \in {"ready", "connecting"} THEN clientState ELSE "connecting"

\* WSClient.send(msg)
send(msg) ==
  IF clientState # "ready"
  THEN /\ clientState' = connect
       /\ queue' = Append(queue, stringify(msg))
       /\ UNCHANGED wire
  ELSE /\ wire' = Append(wire, stringify(msg))
       /\ UNCHANGED <<clientState, queue>>

ClientFrame ==
  UNCHANGED <<sessions, latestState, pending, timers, readyState, sent, last,
              orderVars, windowVars, joinVars, auxVars, hlcVars, mergeVars>>

\* The state updateState builds from its arguments.
stamped(pos, playing, url) ==
  [ts |-> [p |-> now, l |-> logical + 1, c |-> clientId],
   pos |-> pos, playing |-> playing, url |-> url]

\* updateState keeping the pending update of the first call of a burst.
updateStateKeepFirst(sessionId, pos, playing, url) ==
  /\ logical < MaxCalls
  /\ logical' = logical + 1
  /\ clientPending' = IF flushTimer = Null
                       THEN [sessionId |-> sessionId, state |-> stamped(pos, playing, url)]
                       ELSE clientPending
  /\ flushTimer' = IF flushTimer = Null THEN [timer |-> TRUE] ELSE flushTimer
  /\ clientLast' = [op |-> "updateState",
                    call |-> [sessionId |-> sessionId, state |-> stamped(pos, playing, url)],
                    burst |-> IF flushTimer = Null THEN 1 ELSE clientLast.burst + 1,
                    out |-> Null]
  /\ UNCHANGED <<clientState, queue, wire, now>>

\* WSClient.updateState(sessionId, pos, playing, url)
updateState(sessionId, pos, playing, url) ==
  /\ logical < MaxCalls
  /\ logical' = logical + 1
  /\ clientPending' = [sessionId |-> sessionId, state |-> stamped(pos, playing, url)]
  /\ flushTimer' = IF flushTimer = Null THEN [timer |-> TRUE] ELSE flushTimer
  /\ clientLast' = [op |-> "updateState",
                    call |-> [sessionId |-> sessionId, state |-> stamped(pos, playing, url)],
                    burst |-> IF flushTimer = Null THEN 1 ELSE clientLast.burst + 1,
                    out |-> Null]
  /\ UNCHANGED <<clientState, queue, wire, now>>

\* The setTimeout callback of updateState.
flush ==
  /\ flushTimer # Null
  /\ send([type |-> "CRDT_UPDATE", sessionId |-> clientPending.sessionId,
           state |-> clientPending.state])
  /\ clientPending' = Null
  /\ flushTimer' = Null
  /\ clientLast' = [clientLast EXCEPT
                     !.op = "flush",
                     !.out = stringify([type |-> "CRDT_UPDATE",
                                        sessionId |-> clientPending.sessionId,
                                        state |-> clientPending.state])]
  /\ UNCHANGED <<logical, now>>

\* ws.onopen
onopen ==
  /\ clientState = "connecting"
  /\ clientState' = "ready"
  /\ wire' = wire \o queue
  /\ queue' = <<>>
  /\ clientLast' = [clientLast EXCEPT !.op = "open"]
  /\ UNCHANGED <<logical, clientPending, flushTimer, now>>

\* ws.onclose
onclose ==
  /\ clientState \in {"connecting", "ready"}
  /\ clientState' = "closed"
  /\ clientLast' = [clientLast EXCEPT !.op = "close"]
  /\ UNCHANGED <<queue, logical, clientPending, flushTimer, wire, now>>

\* WSClient.disconnect()
disconnect ==
  /\ clientState' = "closed"
  /\ queue' = <<>>
  /\ clientLast' = [clientLast EXCEPT !.op = "disconnect"]
  /\ UNCHANGED <<logical, clientPending, flushTimer, wire, now>>

\* Date.now() advances.
ClientTick ==
  /\ now < MaxNow
  /\ now' = now + 1
  /\ clientLast' = [clientLast EXCEPT !.op = "tick"]
  /\ UNCHANGED <<clientState, queue, logical, clientPending, flushTimer, wire>>

ClientPositions == {30}

NextClient ==
  \/ \E sid \in SessionIds, pos \in ClientPositions, playing \in BOOLEAN,
        url \in ClientUrls :
       updateState(sid, pos, playing, url) /\ ClientFrame
  \/ flush /\ ClientFrame
  \/ onopen /\ ClientFrame
  \/ onclose /\ ClientFrame
  \/ disconnect /\ ClientFrame
  \/ ClientTick /\ ClientFrame

SpecClient == Init /\ [][NextClient]_vars

(***************************************************************************)
(* SpecSocket: one WSClient whose owner calls createSession and            *)
(* joinSession and never disconnect, with the sockets it constructs        *)
(* opening, starting to close and closing in any order.                    *)
(***************************************************************************)
SocketFrame ==
  UNCHANGED <<serverVars, orderVars, windowVars, joinVars, logical, clientPending,
              flushTimer, clientLast, watchVars, traceVars, subVars, draftVars,
              hlcVars, mergeVars>>

\* JSON.stringify of an outbound message.
serialize(msg) == IF "state" \in DOMAIN msg THEN stringify(msg) ELSE msg

\* connect() constructing a socket whatever the state is.
connectAlways == Append(sockets, "CONNECTING")

\* WSClient.connect(): the sockets after it.
connectSocket ==
  IF clientState \in {"ready", "connecting"} THEN sockets
  ELSE Append(sockets, "CONNECTING")

\* WebSocket.send(data) on this.ws: what goes out.  A socket that is
\* CLOSING or CLOSED discards the data.
socketSend(frames, calls) ==
  IF sockets'[thisWs'] = "OPEN"
  THEN /\ wire' = wire \o frames
       /\ wireCalls' = wireCalls \o [i \in 1..Len(calls) |->
                                       [socket |-> thisWs', call |-> calls[i]]]
  ELSE UNCHANGED <<wire, wireCalls>>

\* WSClient.send(msg) with the socket it uses.
sendOnSocket(msg) ==
  /\ Len(handed) < MaxCalls
  /\ handed' = Append(handed, serialize(msg))
  /\ IF clientState # "ready"
     THEN /\ Len(connectSocket) <= MaxSockets
          /\ clientState' = connect
          /\ sockets' = connectSocket
          /\ thisWs' = IF sockets' # sockets THEN Len(sockets') ELSE thisWs
          /\ queue' = Append(queue, serialize(msg))
          /\ queuedCalls' = Append(queuedCalls, Len(handed'))
          /\ UNCHANGED <<wire, wireCalls>>
     ELSE /\ UNCHANGED <<clientState, sockets, thisWs, queue, queuedCalls>>
          /\ socketSend(<<serialize(msg)>>, <<Len(handed')>>)

\* WSClient.createSession(sessionId, url)
createSession(sessionId, url) ==
  sendOnSocket([type |-> "CREATE_SESSION", sessionId |-> sessionId, url |-> url])

\* WSClient.joinSession(sessionId)
joinSession(sessionId) ==
  sendOnSocket([type |-> "JOIN_SESSION", sessionId |-> sessionId])

\* Socket s opens and its onopen runs.
SocketOpen(s) ==
  /\ sockets[s] = "CONNECTING"
  /\ sockets' = [sockets EXCEPT ![s] = "OPEN"]
  /\ UNCHANGED <<thisWs, handed>>
  /\ clientState' = "ready"
  /\ socketSend(queue, queuedCalls)
  /\ queue' = <<>>
  /\ queuedCalls' = <<>>

\* The closing handshake of socket s starts: no handler runs.
SocketClosing(s) ==
  /\ sockets[s] = "OPEN"
  /\ sockets' = [sockets EXCEPT ![s] = "CLOSING"]
  /\ UNCHANGED <<clientState, queue, wire, thisWs, handed, queuedCalls, wireCalls>>

\* Socket s is closed and its onclose runs.
SocketClosed(s) ==
  /\ sockets[s] \in {"CONNECTING", "OPEN", "CLOSING"}
  /\ sockets' = [sockets EXCEPT ![s] = "CLOSED"]
  /\ clientState' = "closed"
  /\ UNCHANGED <<queue, wire, thisWs, handed, queuedCalls, wireCalls>>

NextSocket ==
  \/ \E sid \in SessionIds, url \in Urls : createSession(sid, url) /\ SocketFrame
  \/ \E sid \in SessionIds : joinSession(sid) /\ SocketFrame
  \/ \E s \in DOMAIN sockets : SocketOpen(s) /\ SocketFrame
  \/ \E s \in DOMAIN sockets : SocketClosing(s) /\ SocketFrame
  \/ \E s \in DOMAIN sockets : SocketClosed(s) /\ SocketFrame

SpecSocket == Init /\ [][NextSocket]_vars

(***************************************************************************)
(* SpecDecode: connections delivering arbitrary frames to the message      *)
(* handler of one session.  Nothing runs after the process has ended.      *)
(***************************************************************************)
DecodeFrame ==
  UNCHANGED <<orderVars, windowVars, joinVars, clientVars, auxVars, hlcVars, mergeVars>>

Exited == last.op = "message" /\ last.outcome = "threw" /\ last.exited

NextDecode ==
  \/ \E ws \in Conns : ~Exited /\ Connect(ws) /\ DecodeFrame
  \/ \E ws \in Conns, raw \in RawFrames : ~Exited /\ onMessage(ws, raw) /\ DecodeFrame
  \/ \E sid \in FocusSessions : ~Exited /\ TimerFire(sid) /\ DecodeFrame
  \/ \E ws \in Conns : ~Exited /\ Close(ws) /\ DecodeFrame

SpecDecode == Init /\ [][NextDecode]_vars

(***************************************************************************)
(* SpecWatch: one WatchSession component, mounted on session StrA,         *)
(* receiving SESSION_SNAPSHOT and STATE_BROADCAST messages.  The positions *)
(* the component holds are in thousandths of a second, so that the         *)
(* division by 1000 is exact.                                              *)
(***************************************************************************)
WatchUrls == {"u1", "u2"}
WatchStates ==
  {[ts |-> [p |-> p, l |-> 0, c |-> StrA], pos |-> pl.pos, playing |-> pl.playing,
    url |-> u] : p \in 1..MaxP, pl \in [pos : {0, 30}, playing : BOOLEAN], u \in WatchUrls}
ReceiveTimes == 1..MaxNow

WatchFrame ==
  UNCHANGED <<serverVars, orderVars, windowVars, joinVars, clientVars, traceVars,
              subVars, draftVars, socketVars, hlcVars, mergeVars>>

\* adjustedState.pos += (receivedTime - adjustedState.ts.p) / 1000
Adjusted(state, receivedTime) ==
  [state EXCEPT !.pos = state.pos * 1000 + (receivedTime - state.ts.p)]

\* { ...message.state } left as it is
Unadjusted(state) == [state EXCEPT !.pos = state.pos * 1000]

Abs(x) == IF x < 0 THEN -x ELSE x

\* handleSnapshot(message) at Date.now() = receivedTime.  setUrl renders at
\* once (React 17, outside an event handler); when the url has changed the
\* effect runs again and registers handlers that close over the
\* playheadState of that render, the one before setPlayheadState.
handleSnapshot(message, receivedTime) ==
  /\ watchLast' = [op |-> "SESSION_SNAPSHOT", message |-> message,
                   receivedTime |-> receivedTime]
  /\ IF message.sessionId = StrA
     THEN /\ playheadState' = IF message.state.playing
                               THEN Adjusted(message.state, receivedTime)
                               ELSE Unadjusted(message.state)
          /\ watchUrl' = Str(message.url)
          /\ captured' = IF watchUrl # Str(message.url) THEN playheadState ELSE captured
     ELSE UNCHANGED <<playheadState, watchUrl, captured>>

\* handleBroadcast(message) at Date.now() = receivedTime.  setUrl follows
\* setPlayheadState, so the handlers registered after a change of url close
\* over the new playheadState.
handleBroadcast(message, receivedTime) ==
  /\ watchLast' = [op |-> "STATE_BROADCAST", message |-> message,
                   receivedTime |-> receivedTime]
  /\ IF message.sessionId = StrA
     THEN LET isSeekEvent ==
                /\ captured # Null
                /\ Abs(message.state.pos * 1000 - captured.pos) > 1000
              adjustedState ==
                IF message.state.playing /\ ~isSeekEvent
                THEN Adjusted(message.state, receivedTime)
                ELSE Unadjusted(message.state)
          IN /\ playheadState' = adjustedState
             /\ IF watchUrl # Str(message.state.url)
                THEN watchUrl' = Str(message.state.url) /\ captured' = adjustedState
                ELSE UNCHANGED <<watchUrl, captured>>
     ELSE UNCHANGED <<playheadState, watchUrl, captured>>

NextWatch ==
  \/ \E sid \in SessionIds, state \in WatchStates, t \in ReceiveTimes :
       /\ handleSnapshot([type |-> "SESSION_SNAPSHOT", sessionId |-> sid,
                          state |-> state, url |-> UrlOf(state)], t)
       /\ WatchFrame
  \/ \E sid \in SessionIds, state \in WatchStates, t \in ReceiveTimes :
       /\ handleBroadcast([type |-> "STATE_BROADCAST", sessionId |-> sid,
                           state |-> state], t)
       /\ WatchFrame

SpecWatch == Init /\ [][NextWatch]_vars

(***************************************************************************)
(* SpecTrace: the server on one session, with a record of the states each  *)
(* session has stored before and since its last eviction, and of the last  *)
(* message sent to every connection.                                       *)
(***************************************************************************)
TraceFrame ==
  UNCHANGED <<orderVars, windowVars, joinVars, clientVars, watchVars, subVars,
              draftVars, socketVars, hlcVars, mergeVars>>

\* The frame the step sends to ws about sid, if it sends one.
FrameTo(ws, sid) == {f \in sent' : f.to = ws /\ f.msg.sessionId = sid}

\* What a step of the server adds to the record.
Traced ==
  /\ lived' = [sid \in SessionIds |->
                IF sid \in DOMAIN sessions /\ sid \notin DOMAIN sessions' THEN {}
                ELSE IF sid \in DOMAIN latestState'
                THEN lived[sid] \cup {latestState'[sid]}
                ELSE lived[sid]]
  /\ stale' = [sid \in SessionIds |->
                IF sid \in DOMAIN sessions /\ sid \notin DOMAIN sessions'
                THEN stale[sid] \cup lived[sid]
                ELSE IF sid \in DOMAIN latestState'
                        /\ Get(latestState, sid) # latestState'[sid]
                THEN stale[sid] \ {latestState'[sid]}
                ELSE stale[sid]]
  /\ lastMsg' = [w \in Conns |-> [sid \in SessionIds |->
                  IF FrameTo(w, sid) # {}
                  THEN (CHOOSE f \in FrameTo(w, sid) : TRUE).msg.state
                  ELSE lastMsg[w][sid]]]
  /\ lastBroadcast' = [w \in Conns |-> [sid \in SessionIds |->
                  IF \E f \in FrameTo(w, sid) : f.msg.type = "STATE_BROADCAST"
                  THEN (CHOOSE f \in FrameTo(w, sid) : TRUE).msg.state.ts
                  ELSE lastBroadcast[w][sid]]]
  /\ TraceFrame

NextTrace ==
  \/ \E ws \in Conns : Connect(ws) /\ Traced
  \/ \E ws \in Conns, sid \in FocusSessions, url \in Urls :
       CreateSession(ws, sid, url) /\ Traced
  \/ \E ws \in Conns, sid \in FocusSessions : JoinSession(ws, sid) /\ Traced
  \/ \E ws \in Conns, sid \in FocusSessions, state \in JoinUpdates :
       CrdtUpdate(ws, sid, state) /\ Traced
  \/ \E sid \in FocusSessions : TimerFire(sid) /\ Traced
  \/ \E ws \in Conns : Close(ws) /\ Traced
  \/ Tick /\ Traced

SpecTrace == Init /\ [][NextTrace]_vars

(***************************************************************************)
(* SpecSub: connections joining and creating one session any number of     *)
(* times, with a count of the subscriptions each has asked for.            *)
(***************************************************************************)
SubFrame ==
  UNCHANGED <<orderVars, windowVars, joinVars, clientVars, watchVars, traceVars,
              draftVars, socketVars, hlcVars, mergeVars>>

\* The connection has asked once more to be subscribed.
Joined(ws, sid) ==
  joins' = [joins EXCEPT ![ws][sid] = IF @ < 2 THEN @ + 1 ELSE @]

NextSub ==
  \/ \E ws \in Conns : Connect(ws) /\ UNCHANGED joins /\ SubFrame
  \/ \E ws \in Conns, sid \in FocusSessions, url \in Urls :
       CreateSession(ws, sid, url) /\ Joined(ws, sid) /\ SubFrame
  \/ \E ws \in Conns, sid \in FocusSessions :
       JoinSession(ws, sid) /\ Joined(ws, sid) /\ SubFrame
  \/ \E ws \in Conns, sid \in FocusSessions, state \in JoinUpdates :
       CrdtUpdate(ws, sid, state) /\ UNCHANGED joins /\ SubFrame
  \/ \E sid \in FocusSessions : TimerFire(sid) /\ UNCHANGED joins /\ SubFrame
  \/ \E ws \in Conns : Close(ws) /\ UNCHANGED joins /\ SubFrame

SpecSub == Init /\ [][NextSub]_vars

(***************************************************************************)
(* SpecDraft: the coalescing server and the immediate-broadcast draft of   *)
(* the same file, fed the same frames and close events on the same         *)
(* sockets at the same clock readings.                                     *)
(***************************************************************************)
DraftFrame ==
  UNCHANGED <<orderVars, windowVars, joinVars, clientVars, watchVars, traceVars,
              subVars, socketVars, hlcVars, mergeVars>>

\* The draft's sessions map after has/set/add.
draftSubscribe(ws, sessionId) ==
  Put(dSessions, sessionId,
      (IF sessionId \in DOMAIN dSessions THEN dSessions[sessionId] ELSE {}) \cup {ws})

\* The draft's broadcast(sessionId, message): the frames it sends.
draftBroadcast(sessionId, message) ==
  IF sessionId \notin DOMAIN dSessions THEN {}
  ELSE {[to |-> ws, msg |-> message] :
          ws \in {w \in dSessions[sessionId] : readyState[w] = "OPEN"}}

\* The draft handles nothing in this step.
draftIdle == dSent' = {} /\ UNCHANGED <<dSessions, dLatestState, dCalled, dDelivered>>

\* The draft's case 'CREATE_SESSION'
draftCreateSession(ws, sessionId, url) ==
  LET initial == [ts |-> [p |-> now, l |-> 0, c |-> sessionId],
                  pos |-> 0, playing |-> FALSE, url |-> url]
  IN /\ dSessions' = draftSubscribe(ws, sessionId)
     /\ dLatestState' = Put(dLatestState, sessionId, initial)
     /\ dSent' = {[to |-> ws,
                   msg |-> [type |-> "SESSION_CREATED", sessionId |-> sessionId,
                            state |-> initial]]}
     /\ UNCHANGED <<dCalled, dDelivered>>

\* The draft's case 'JOIN_SESSION'
draftJoinSession(ws, sessionId) ==
  LET snapshot == Get(dLatestState, sessionId)
  IN /\ dSessions' = draftSubscribe(ws, sessionId)
     /\ dSent' = IF snapshot # Undefined
                 THEN {[to |-> ws,
                        msg |-> [type |-> "SESSION_SNAPSHOT", sessionId |-> sessionId,
                                 state |-> snapshot, url |-> UrlOf(snapshot)]]}
                 ELSE {}
     /\ UNCHANGED <<dLatestState, dCalled, dDelivered>>

\* The draft's case 'CRDT_UPDATE': broadcast at once.
draftCrdtUpdate(ws, sessionId, state) ==
  LET currentState == Get(dLatestState, sessionId)
      next == mergeState(currentState, state)
      frames == draftBroadcast(sessionId,
                  [type |-> "STATE_BROADCAST", sessionId |-> sessionId, state |-> next])
  IN IF next # currentState
     THEN /\ dLatestState' = Put(dLatestState, sessionId, next)
          /\ dSent' = frames
          /\ dCalled' = [dCalled EXCEPT ![sessionId] = @ \cup {next}]
          /\ dDelivered' = [dDelivered EXCEPT ![sessionId] =
                              IF frames # {} THEN @ \cup {next} ELSE @]
          /\ UNCHANGED dSessions
     ELSE draftIdle

\* The draft's ws.on('close')
draftClose(ws) ==
  LET emptied == {sid \in DOMAIN dSessions : dSessions[sid] = {ws}}
  IN /\ dSessions' = [sid \in DOMAIN dSessions \ emptied |-> dSessions[sid] \ {ws}]
     /\ dLatestState' = [sid \in DOMAIN dLatestState \ emptied |-> dLatestState[sid]]
     /\ dSent' = {}
     /\ UNCHANGED <<dCalled, dDelivered>>

NextDraft ==
  \/ \E ws \in Conns : Connect(ws) /\ draftIdle /\ DraftFrame
  \/ \E ws \in Conns, sid \in FocusSessions, url \in Urls :
       CreateSession(ws, sid, url) /\ draftCreateSession(ws, sid, url) /\ DraftFrame
  \/ \E ws \in Conns, sid \in FocusSessions :
       JoinSession(ws, sid) /\ draftJoinSession(ws, sid) /\ DraftFrame
  \/ \E ws \in Conns, sid \in FocusSessions, state \in JoinUpdates :
       CrdtUpdate(ws, sid, state) /\ draftCrdtUpdate(ws, sid, state) /\ DraftFrame
  \/ \E sid \in FocusSessions : TimerFire(sid) /\ draftIdle /\ DraftFrame
  \/ \E ws \in Conns : Close(ws) /\ draftClose(ws) /\ DraftFrame
  \/ Tick /\ draftIdle /\ DraftFrame

SpecDraft == Init /\ [][NextDraft]_vars

(***************************************************************************)
(* SpecClose: connections creating, joining and leaving two sessions.      *)
(***************************************************************************)
CloseFrame ==
  UNCHANGED <<orderVars, burst, opened, merged, joinVars, clientVars, auxVars, hlcVars, mergeVars>>

\* The close handler, and what it found: the sessions the connection was in,
\* and those with state that it evicted.
Leave(ws) ==
  /\ Close(ws)
  /\ event' = [op |-> "close",
                joined |-> {sid \in DOMAIN sessions : ws \in sessions[sid]},
                evicted |-> Emptied(ws) \cap DOMAIN latestState]
  /\ CloseFrame

NextClose ==
  \/ \E ws \in Conns : Connect(ws) /\ event' = Undefined /\ CloseFrame
  \/ \E ws \in Conns, sid \in SessionIds, url \in Urls :
       CreateSession(ws, sid, url) /\ event' = Undefined /\ CloseFrame
  \/ \E ws \in Conns, sid \in SessionIds :
       JoinSession(ws, sid) /\ event' = Undefined /\ CloseFrame
  \/ \E ws \in Conns : Error(ws) /\ event' = Undefined /\ CloseFrame
  \/ \E ws \in Conns : Leave(ws)

SpecClose == Init /\ [][NextClose]_vars

(***************************************************************************)
(* SpecOrder: CRDT_UPDATE frames delivered to one session in any order,    *)
(* any number of times each, with no CREATE_SESSION and no close once the  *)
(* first has been delivered; at most MaxPlan different frames.             *)
(***************************************************************************)
InitOrder ==
  /\ ServerInit /\ BurstIdle /\ JoinIdle /\ ClientInit /\ AuxIdle /\ HLCIdle /\ MergeIdle
  /\ seen = {}
  /\ start = Undefined
  /\ idem = Undefined

OrderFrame ==
  UNCHANGED <<orderVars, windowVars, joinVars, clientVars, auxVars, hlcVars, mergeVars>>

Deliver(ws, sessionId, state) ==
  /\ state \in seen \/ Cardinality(seen) < MaxPlan
  /\ CrdtUpdate(ws, sessionId, state)
  /\ seen' = seen \cup {state}
  /\ start' = IF seen = {} THEN Get(latestState, sessionId) ELSE start
  /\ idem' = [update |-> state, again |-> state \in seen,
              once |-> mergeState(Get(latestState, sessionId), state),
              twice |-> mergeState(mergeState(Get(latestState, sessionId), state),
                                   state)]
  /\ UNCHANGED <<windowVars, joinVars, clientVars, auxVars, hlcVars, mergeVars>>

NextOrder ==
  \/ \E ws \in Conns : seen = {} /\ Connect(ws) /\ OrderFrame
  \/ \E ws \in Conns, sid \in FocusSessions, url \in Urls :
       seen = {} /\ CreateSession(ws, sid, url) /\ OrderFrame
  \/ \E ws \in Conns, sid \in FocusSessions :
       seen = {} /\ JoinSession(ws, sid) /\ OrderFrame
  \/ seen = {} /\ Tick /\ OrderFrame
  \/ \E ws \in Conns, sid \in FocusSessions, state \in UpdateStates :
       Deliver(ws, sid, state)
  \/ \E sid \in FocusSessions : TimerFire(sid) /\ OrderFrame

SpecOrder == InitOrder /\ [][NextOrder]_vars

(***************************************************************************)
(* SpecHLC: compareHLC (and mergeState on two states that differ only in   *)
(* ts) applied to every triple of HLC values of the bounds.                *)
(***************************************************************************)
\* A state stamped h, as the merge tests build it (mkState).
mkState(h) == [ts |-> h, pos |-> 0, playing |-> FALSE, url |-> "u1"]

InitHLC ==
  /\ ServerInit /\ OrderIdle /\ BurstIdle /\ JoinIdle /\ ClientInit /\ AuxIdle /\ MergeIdle
  /\ ha \in HLCs /\ hb \in HLCs /\ hc \in HLCs
  /\ cmp = Undefined

ApplyCompare ==
  /\ cmp = Undefined
  /\ cmp' = [ab |-> compareHLC(ha, hb), ba |-> compareHLC(hb, ha),
             bc |-> compareHLC(hb, hc), ac |-> compareHLC(ha, hc),
             mab |-> mergeState(mkState(ha), mkState(hb)),
             mba |-> mergeState(mkState(hb), mkState(ha))]
  /\ UNCHANGED <<serverVars, orderVars, windowVars, joinVars, clientVars, auxVars, mergeVars,
                  ha, hb, hc>>

NextHLC == ApplyCompare

SpecHLC == InitHLC /\ [][NextHLC]_vars

(***************************************************************************)
(* SpecMerge: mergeState applied to every current state (or none) and pair *)
(* of updates of the bounds.                                               *)
(***************************************************************************)
MergeStates ==
  {[ts |-> h, pos |-> pl.pos, playing |-> pl.playing, url |-> u] :
     h \in HLCs, pl \in Payloads, u \in Urls}

InitMerge ==
  /\ ServerInit /\ OrderIdle /\ BurstIdle /\ JoinIdle /\ ClientInit /\ AuxIdle /\ HLCIdle
  /\ ms \in MergeStates \cup {Undefined}
  /\ mu1 \in MergeStates /\ mu2 \in MergeStates
  /\ mres = Undefined

ApplyMerge ==
  /\ mres = Undefined
  /\ mres' = [r1 |-> mergeState(ms, mu1),
              r11 |-> mergeState(mergeState(ms, mu1), mu1),
              r12 |-> mergeState(mergeState(ms, mu1), mu2),
              r21 |-> mergeState(mergeState(ms, mu2), mu1)]
  /\ UNCHANGED <<serverVars, orderVars, windowVars, joinVars, clientVars, auxVars, hlcVars,
                  ms, mu1, mu2>>

NextMerge == ApplyMerge

SpecMerge == InitMerge /\ [][NextMerge]_vars

(***************************************************************************)
(* Properties.                                                             *)
(***************************************************************************)
Sign(n) == IF n < 0 THEN -1 ELSE IF n > 0 THEN 1 ELSE 0

\* Lexicographic comparison of the tuples (p, l, c), strings by code unit.
TupleCompare(a, b) ==
  IF a.p # b.p THEN (IF a.p < b.p THEN -1 ELSE 1)
  ELSE IF a.l # b.l THEN (IF a.l < b.l THEN -1 ELSE 1)
  ELSE SeqCompare(a.c, b.c)

\* Some connection's CRDT_UPDATE handler runs on the session.
IsCrdtUpdate(sid) ==
  \E ws \in Conns, state \in UpdateStates : CrdtUpdate(ws, sid, state)

\* C1: a CRDT_UPDATE on a session that has stored state never replaces it by
\* one whose ts compares lower: the stored ts after the handler compares >=
\* the stored ts before it.
C1_UpdateMonotonic ==
  [][\A sid \in SessionIds :
       (sid \in DOMAIN latestState /\ IsCrdtUpdate(sid)) =>
         /\ sid \in DOMAIN latestState'
         /\ compareHLC(latestState'[sid].ts, latestState[sid].ts) >= 0]_vars

\* A CRDT_UPDATE has replaced a stored state.
C1_Witness ==
  /\ last.op = "CRDT_UPDATE" /\ last.had /\ last.changed
  /\ last.sessionId \in DOMAIN latestState

\* C2 as stated: while a session exists, no step of any kind replaces its
\* stored state by one whose ts compares lower.
C2_AlwaysAdvances ==
  [][\A sid \in SessionIds :
       (sid \in DOMAIN sessions /\ sid \in DOMAIN latestState
          /\ sid \in DOMAIN latestState') =>
         compareHLC(latestState'[sid].ts, latestState[sid].ts) >= 0]_vars

\* The ts values the session has been given: its starting state's, if it had
\* one, and those of the updates delivered.
Delivered ==
  {x.ts : x \in seen} \cup (IF start = Undefined THEN {} ELSE {start.ts})

\* C3: once updates have been delivered, in whatever order and however often,
\* the stored ts is one of the ts of the starting state and of the delivered
\* updates, and compares >= every one of them.
C3_ConvergesToMax ==
  \A sid \in FocusSessions :
    seen # {} =>
      /\ sid \in DOMAIN latestState
      /\ latestState[sid].ts \in Delivered
      /\ \A t \in Delivered : compareHLC(latestState[sid].ts, t) >= 0

\* Several updates delivered to a session that had state, the last of them
\* stale, and an update is what is stored.
C3_Witness ==
  /\ Cardinality(seen) >= 2 /\ start # Undefined
  /\ last.op = "CRDT_UPDATE" /\ ~last.changed
  /\ \E sid \in FocusSessions : sid \in DOMAIN latestState /\ latestState[sid] \in seen

C8_StaleUpdateAbsorbed ==
  [][\A ws \in Conns, sid \in SessionIds, state \in UpdateStates :
       (/\ sid \in DOMAIN latestState
        /\ compareHLC(state.ts, latestState[sid].ts) <= 0
        /\ CrdtUpdate(ws, sid, state)) =>
         /\ latestState' = latestState
         /\ pending' = pending
         /\ timers' = timers
         /\ sent' = {}]_vars

\* A CRDT_UPDATE found state, changed nothing, and a window is open.
C8_Witness ==
  /\ last.op = "CRDT_UPDATE" /\ last.had /\ ~last.changed
  /\ last.sessionId \in DOMAIN pending
  /\ timers[last.sessionId] = 1

\* C9 as stated: when the timer of a window fires, each subscriber is sent at
\* most one STATE_BROADCAST, no other callback of the window is left, and the
\* state sent is the result of merging every update that arrived during the
\* window into the state that preceded it.
C9_BurstCoalesced ==
  [][\A sid \in SessionIds :
       TimerFire(sid) =>
         /\ timers'[sid] = 0
         /\ \A ws \in Conns : Cardinality({f \in sent' : f.to = ws}) <= 1
         /\ \A f \in sent' :
              f.msg.type = "STATE_BROADCAST" /\ f.msg.state = burst[sid]]_vars

\* C10 as stated: the state a firing timer broadcasts is the state stored in
\* latestState for the session at that moment.
C10_BroadcastIsLatest ==
  [][\A sid \in SessionIds :
       TimerFire(sid) =>
         \A f \in sent' :
           /\ sid \in DOMAIN latestState
           /\ f.msg.state = latestState[sid]]_vars

\* C4 as stated: applying two updates in either order to the same starting
\* state (or to none) yields the same state in every field, also when the two
\* updates carry the same ts and differ in pos, playing or url.
C4_OrderIndependentAsStated ==
  mres # Undefined => mres.r12 = mres.r21

\* Two different updates whose ts compare equal and that both win over ms.
MergeTie ==
  /\ mu1 # mu2
  /\ compareHLC(mu1.ts, mu2.ts) = 0
  /\ (ms = Undefined \/ compareHLC(mu1.ts, ms.ts) > 0)

\* C4 amended: applying two updates in either order to the same starting state
\* (or to none) yields the same state in every field, except when the two are
\* different updates whose ts compare equal and win over the starting state:
\* then each order keeps the update that arrived first.
C4_OrderIndependent ==
  mres # Undefined =>
    IF MergeTie THEN mres.r12 = mu1 /\ mres.r21 = mu2
    ELSE mres.r12 = mres.r21

\* Both updates win over the starting state, the second over the first, and
\* both orders end on the second.
C4_Witness ==
  /\ mres # Undefined /\ ms # Undefined
  /\ compareHLC(mu1.ts, ms.ts) > 0
  /\ compareHLC(mu2.ts, mu1.ts) > 0
  /\ mres.r12 = mu2 /\ mres.r21 = mu2

\* C6 as stated: compareHLC is a strict total order on HLC triples: two
\* triples that differ in a field compare non-zero with opposite signs, only
\* identical triples compare 0, and the order is transitive.
C6_StrictTotalOrder ==
  cmp # Undefined =>
    /\ (ha # hb => cmp.ab # 0 /\ cmp.ba # 0 /\ Sign(cmp.ab) = -Sign(cmp.ba))
    /\ (cmp.ab = 0 => ha = hb)
    /\ (cmp.ab > 0 /\ cmp.bc > 0 => cmp.ac > 0)

\* C7 as stated: the sign of compareHLC(a, b) is the sign of the lexicographic
\* comparison of (a.p, a.l, a.c) with (b.p, b.l, b.c), and mergeState returns
\* the state with the later physical time, or the equal physical time and the
\* higher logical counter, in whichever order the two arrive.
C7_LexicographicOrder ==
  cmp # Undefined =>
    /\ Sign(cmp.ab) = TupleCompare(ha, hb)
    /\ (hb.p > ha.p \/ (hb.p = ha.p /\ hb.l > ha.l) =>
          cmp.mab = mkState(hb) /\ cmp.mba = mkState(hb))

(***************************************************************************)
(* Properties of the coalescer's windows and of the subscriber sets.       *)
(***************************************************************************)
\* The connections in the session's subscriber set, and the open ones.
Subscribers(sid) == IF sid \in DOMAIN sessions THEN sessions[sid] ELSE {}
OpenSubscribers(sid) == {w \in Subscribers(sid) : readyState[w] = "OPEN"}

\* The connections the last handler or callback sent a frame to.
Recipients == {f.to : f \in sent}

\* The ts values a stored state can carry.
StoredTs ==
  [p : 1..(IF MaxP > MaxNow THEN MaxP ELSE MaxNow), l : 0..MaxL, c : OriginIds]

\* The session's stored state has just been replaced by a different one
\* stamped t: by a CRDT_UPDATE, or by a CREATE_SESSION on a session with state.
Replaced(sid, t) ==
  /\ last.op \in {"CREATE_SESSION", "CRDT_UPDATE"}
  /\ last.sessionId = sid /\ last.changed
  /\ last.op = "CREATE_SESSION" => last.had
  /\ latestState[sid].ts = t

\* A timer of the session has just sent its STATE_BROADCAST, stamped t or
\* later, to every open subscriber.
BroadcastSince(sid, t) ==
  /\ event # Undefined /\ event.op = "fired" /\ event.sessionId = sid
  /\ compareHLC(event.msg.state.ts, t) >= 0
  /\ Recipients = OpenSubscribers(sid)

\* C11 as stated: whenever a session's stored state is replaced by a different
\* one, a STATE_BROADCAST carrying that state or a later one is eventually
\* sent to the session's subscribers, unless none of them is left.
C11_EveryChangeBroadcast ==
  \A sid \in FocusSessions, t \in StoredTs :
    Replaced(sid, t) ~> (BroadcastSince(sid, t) \/ OpenSubscribers(sid) = {})

\* C12: a session has a pending message exactly while one timer callback of
\* it is outstanding; until that callback runs, no step removes the pending
\* message or touches the timer; and the callback eventually runs and removes
\* the pending message.
C12_WindowAlwaysFires ==
  /\ [](\A sid \in SessionIds :
          timers[sid] = IF sid \in DOMAIN pending THEN 1 ELSE 0)
  /\ [][\A sid \in SessionIds :
          sid \in DOMAIN pending =>
            \/ TimerFire(sid)
            \/ sid \in DOMAIN pending' /\ timers'[sid] = timers[sid]]_vars
  /\ \A sid \in FocusSessions :
       (sid \in DOMAIN pending) ~> (sid \notin DOMAIN pending)

\* The timer of a window has run although the session, which had subscribers
\* when the window opened, was evicted while it was open.
C12_Witness ==
  /\ event # Undefined /\ event.op = "fired"
  /\ event.opened # {}
  /\ event.sessionId \notin DOMAIN sessions
  /\ event.sessionId \notin DOMAIN pending
  /\ timers[event.sessionId] = 0

\* C13 as stated: a JOIN_SESSION on a session with stored state is answered
\* with exactly one SESSION_SNAPSHOT, whose state is the stored state, and
\* that state is the merge of every state the session was given before.
C13_SnapshotIsMergeOfAll ==
  [][\A ws \in Conns, sid \in SessionIds :
       (sid \in DOMAIN latestState /\ JoinSession(ws, sid)) =>
         /\ sent' = {[to |-> ws,
                      msg |-> [type |-> "SESSION_SNAPSHOT", sessionId |-> sid,
                               state |-> latestState[sid],
                               url |-> latestState[sid].url]]}
         /\ latestState[sid] = merged[sid]]_vars

\* C14: a firing timer sends the pending STATE_BROADCAST to exactly the open
\* connections of the subscriber set of that moment, one frame each.
C14_FanOutToCurrentSubscribers ==
  [][\A sid \in SessionIds :
       TimerFire(sid) =>
         /\ {f.to : f \in sent'} = OpenSubscribers(sid)
         /\ Cardinality(sent') = Cardinality(OpenSubscribers(sid))
         /\ \A f \in sent' :
              f.msg = pending[sid] /\ f.msg.type = "STATE_BROADCAST"]_vars

\* A timer has fired for a session that one connection joined and another
\* left while the window was open: the first was sent the broadcast, the
\* second was not.
C14_Witness ==
  /\ event # Undefined /\ event.op = "fired"
  /\ Recipients \ event.opened # {}
  /\ event.opened \ Recipients # {}

\* A subscribed connection's CRDT_UPDATE has just changed the session's state.
SenderChanged(ws, sid) ==
  /\ event # Undefined /\ event.op = "update" /\ event.from = ws
  /\ last.sessionId = sid /\ last.changed
  /\ ws \in Subscribers(sid)

\* A timer has just sent the connection the session's stored state.
ReceivedLatest(ws, sid) ==
  /\ event # Undefined /\ event.op = "fired" /\ event.sessionId = sid
  /\ sid \in DOMAIN latestState
  /\ [to |-> ws,
      msg |-> [type |-> "STATE_BROADCAST", sessionId |-> sid,
               state |-> latestState[sid]]] \in sent

\* C15 as stated: a subscribed connection whose CRDT_UPDATE changed the state
\* is eventually sent, unless it is no longer open, a STATE_BROADCAST carrying
\* the session's stored state.
C15_SenderReceivesLatest ==
  \A ws \in Conns, sid \in FocusSessions :
    SenderChanged(ws, sid) ~> (ReceivedLatest(ws, sid) \/ readyState[ws] # "OPEN")

\* A subscribed connection has just sent a CRDT_UPDATE with this payload.
SentPayload(sid, pl) ==
  /\ event # Undefined /\ event.op = "update"
  /\ last.sessionId = sid
  /\ event.from \in Subscribers(sid)
  /\ event.pos = pl.pos /\ event.playing = pl.playing

\* A timer has just sent every open subscriber a STATE_BROADCAST with this
\* payload.
DeliveredPayload(sid, pl) ==
  /\ event # Undefined /\ event.op = "fired" /\ event.sessionId = sid
  /\ event.msg.type = "STATE_BROADCAST"
  /\ event.msg.state.pos = pl.pos /\ event.msg.state.playing = pl.playing
  /\ Recipients = OpenSubscribers(sid)
  /\ \A f \in sent : f.msg = event.msg

\* C16 as stated: whenever a subscribed connection sends a play or pause
\* update, every subscriber is eventually sent a STATE_BROADCAST with the
\* playing flag and position of that update, unless no subscriber is left.
C16_PlayPauseReachesAllAsStated ==
  \A sid \in FocusSessions, pl \in Payloads :
    SentPayload(sid, pl) ~> (DeliveredPayload(sid, pl) \/ OpenSubscribers(sid) = {})

\* The window of the session is open on a message with another payload.
Superseded(sid, pl) ==
  /\ sid \in DOMAIN pending
  /\ pending[sid].state.pos # pl.pos \/ pending[sid].state.playing # pl.playing

\* C16 amended: whenever a subscribed connection sends a play or pause update
\* that changes the session's state (its ts compares greater than the stored
\* ts, or nothing is stored), then, unless another update with a different
\* payload replaces it before the window's timer fires, every subscriber open
\* at that moment is sent a STATE_BROADCAST with the playing flag and
\* position of that update.
C16_PlayPauseReachesAll ==
  \A sid \in FocusSessions, pl \in Payloads :
    (SentPayload(sid, pl) /\ last.changed)
      ~> (DeliveredPayload(sid, pl) \/ Superseded(sid, pl))

\* A timer has sent a play update to two subscribers.
C16_Witness ==
  /\ event # Undefined /\ event.op = "fired"
  /\ event.msg.state.playing /\ event.msg.state.pos = 30
  /\ Cardinality(Recipients) = 2
  /\ \A f \in sent : f.msg = event.msg

\* C17: the close of a session's only subscriber removes the session's
\* subscriber container and its stored state, and a JOIN_SESSION on a session
\* without stored state is answered with nothing.
C17_EvictedSessionNotRetrievable ==
  /\ [][\A ws \in Conns, sid \in SessionIds :
          (sid \in DOMAIN sessions /\ sessions[sid] = {ws} /\ Close(ws)) =>
            /\ sid \notin DOMAIN sessions'
            /\ sid \notin DOMAIN latestState']_vars
  /\ [][\A ws \in Conns, sid \in SessionIds :
          (sid \notin DOMAIN latestState /\ JoinSession(ws, sid)) =>
            sent' = {}]_vars

\* A connection has joined a session right after the close of its only
\* subscriber evicted it with its state, and was sent nothing.
C17_Witness ==
  /\ event # Undefined /\ event.op = "join"
  /\ last.op = "JOIN_SESSION" /\ last.sessionId \in event.evicted
  /\ ~last.had /\ sent = {}

\* C18 as stated: every session id that has stored state has a non-empty
\* subscriber set.
C18_StateImpliesSubscribers ==
  \A sid \in DOMAIN latestState :
    sid \in DOMAIN sessions /\ sessions[sid] # {}

\* C19: the close of a connection removes it from every session's subscriber
\* set, leaves every other connection's membership of every session as it
\* was, and leaves the stored state of every session that keeps a subscriber
\* as it was.
C19_CloseLeavesEverySession ==
  [][\A ws \in Conns :
       Close(ws) =>
         /\ \A sid \in SessionIds : ws \notin Subscribers(sid)'
         /\ \A sid \in SessionIds, other \in Conns \ {ws} :
              other \in Subscribers(sid) <=> other \in Subscribers(sid)'
         /\ \A sid \in DOMAIN sessions :
              sessions[sid] \ {ws} # {} =>
                /\ sid \in DOMAIN sessions'
                /\ Get(latestState, sid)' = Get(latestState, sid)]_vars

\* A connection that was in two sessions has closed: one session, which it
\* shared, keeps its other subscriber and its state; the other was evicted.
C19_Witness ==
  /\ event # Undefined /\ event.op = "close"
  /\ Cardinality(event.joined) = 2
  /\ event.evicted # {}
  /\ \E sid \in event.joined :
       /\ Subscribers(sid) # {}
       /\ sid \in DOMAIN latestState
  /\ \A sid \in SessionIds : \A ws \in Subscribers(sid) : readyState[ws] # "CLOSED"

\* C20 as stated: the error handler of a connection removes it from every
\* session's subscriber set and evicts the sessions it leaves empty, as the
\* close handler does.
C20_ErrorLeaves ==
  [][\A ws \in Conns :
       Error(ws) =>
         \A sid \in DOMAIN sessions :
           /\ sid \in DOMAIN sessions' => ws \notin sessions'[sid]
           /\ sessions[sid] = {ws} =>
                sid \notin DOMAIN sessions' /\ sid \notin DOMAIN latestState']_vars

(***************************************************************************)
(* Properties of CREATE_SESSION and JOIN_SESSION.                          *)
(***************************************************************************)
\* C21: CREATE_SESSION stores {pos 0, paused, url, ts (server time, 0,
\* sessionId)} whatever the session held before, and the SESSION_CREATED
\* reply, sent to the creator, carries exactly the stored state.
C21_CreateInitializes ==
  [][\A ws \in Conns, sid \in SessionIds, url \in Urls :
       CreateSession(ws, sid, url) =>
         /\ sid \in DOMAIN latestState'
         /\ latestState'[sid] = [ts |-> [p |-> now, l |-> 0, c |-> sid],
                                 pos |-> 0, playing |-> FALSE, url |-> url]
         /\ sent' = {[to |-> ws,
                      msg |-> [type |-> "SESSION_CREATED", sessionId |-> sid,
                               state |-> latestState'[sid]]]}]_vars

\* A CREATE_SESSION has replaced a playing state with a later ts.
C21_Witness ==
  /\ last.op = "CREATE_SESSION" /\ last.had /\ last.changed
  /\ \E f \in sent :
       /\ f.msg.type = "SESSION_CREATED"
       /\ f.msg.state = latestState[last.sessionId]
       /\ f.msg.state.ts.p = now /\ f.msg.state.pos = 0
  /\ \E sid \in DOMAIN pending :
       /\ sid = last.sessionId
       /\ pending[sid].state.playing
       /\ compareHLC(pending[sid].state.ts, latestState[sid].ts) > 0

\* C22: a connection that sent CREATE_SESSION for a session, and never
\* JOIN_SESSION, is in the session's subscriber set until it closes, and is
\* sent the STATE_BROADCAST of every timer of the session that fires.
C22_CreatorIsSubscriber ==
  /\ [](\A sid \in DOMAIN creators : creators[sid] \subseteq Subscribers(sid))
  /\ [][\A sid \in SessionIds :
          TimerFire(sid) =>
            \A ws \in Members(creators, sid) :
              readyState[ws] = "OPEN" =>
                [to |-> ws, msg |-> pending[sid]] \in sent']_vars

\* A timer has sent its STATE_BROADCAST to a connection that created the
\* session and never joined it.
C22_Witness ==
  /\ last.op = "timer"
  /\ Members(creators, last.sessionId) \cap Recipients # {}
  /\ \A f \in sent : f.msg.type = "STATE_BROADCAST"

\* C23: a JOIN_SESSION or CREATE_SESSION sends frames to the originating
\* connection only, and leaves pending and the timers as they are.
C23_ReplyToOriginatorOnly ==
  [][\A ws \in Conns, sid \in SessionIds :
       (JoinSession(ws, sid) \/ \E url \in Urls : CreateSession(ws, sid, url)) =>
         /\ \A f \in sent' : f.to = ws
         /\ pending' = pending
         /\ timers' = timers]_vars

\* A connection has joined a session that has another open subscriber and an
\* open window, and the snapshot is the only frame sent.
C23_Witness ==
  /\ last.op = "JOIN_SESSION" /\ last.had
  /\ Cardinality(OpenSubscribers(last.sessionId)) = 2
  /\ Cardinality(sent) = 1
  /\ last.sessionId \in DOMAIN pending

\* C24: a JOIN_SESSION on a session without stored state registers the
\* connection, creates no state and sends nothing; and the timer of the window
\* opened by the update that creates the state sends its STATE_BROADCAST to
\* that connection if it is still open, and does fire.
C24_JoinBeforeState ==
  /\ [][\A ws \in Conns, sid \in SessionIds :
          (sid \notin DOMAIN latestState /\ JoinSession(ws, sid)) =>
            /\ sid \in DOMAIN sessions' /\ ws \in sessions'[sid]
            /\ latestState' = latestState
            /\ sent' = {}]_vars
  /\ [][\A sid \in SessionIds :
          TimerFire(sid) =>
            \A ws \in OwedTo(sid) :
              readyState[ws] = "OPEN" =>
                [to |-> ws, msg |-> pending[sid]] \in sent']_vars
  /\ \A sid \in FocusSessions :
       (sid \in DOMAIN Unpaid(owed))
         ~> (last.op = "timer" /\ sid \in DOMAIN owed /\ owed[sid].paid)

\* A connection joined a session without state, an update created the state,
\* and the timer has sent that connection the broadcast.
C24_Witness ==
  /\ last.op = "timer"
  /\ \E sid \in DOMAIN owed :
       /\ owed[sid].paid
       /\ owed[sid].conns # {}
       /\ owed[sid].conns \subseteq Recipients
  /\ \A f \in sent : f.msg.type = "STATE_BROADCAST"

(***************************************************************************)
(* Properties of failing connections and of independent sessions.          *)
(***************************************************************************)
\* C28: when ws.send throws for some subscribers, or some are not open, a
\* firing timer still sends the pending STATE_BROADCAST to every other open
\* subscriber, removes the pending message and its timer, and leaves
\* latestState and sessions as they are.
C28_SendFailureIsolated ==
  [][\A sid \in SessionIds, throwing \in SUBSET Conns :
       TimerFireSendThrows(sid, throwing) =>
         /\ {f.to : f \in sent'} = OpenSubscribers(sid) \ throwing
         /\ \A f \in sent' : f.msg = pending[sid]
         /\ sid \notin DOMAIN pending'
         /\ timers'[sid] = timers[sid] - 1
         /\ latestState' = latestState
         /\ sessions' = sessions]_vars

\* A timer has fired, ws.send threw for one open subscriber, and the other
\* subscriber was sent the broadcast.
C28_Witness ==
  /\ last.op = "timer"
  /\ last.threw # {}
  /\ Recipients # {}
  /\ Recipients \cap last.threw = {}
  /\ last.sessionId \notin DOMAIN pending

\* What the server holds for a session: stored state, subscribers, pending
\* message and running timers.
Held(sid) ==
  [state |-> Get(latestState, sid), subscribers |-> Members(sessions, sid),
   has |-> sid \in DOMAIN sessions, pending |-> Get(pending, sid),
   timers |-> timers[sid]]

\* C29: a JOIN_SESSION, CREATE_SESSION or CRDT_UPDATE for session A, and the
\* firing of A's timer, leave what the server holds for every other session B
\* unchanged and send no message about B; a CRDT_UPDATE that changes B's
\* state while A's window is open makes B's own pending message the new
\* state, starts B's own timer when B had no window, and leaves A's window
\* as it was.
C29_SessionsIndependent ==
  [][\A A \in SessionIds : \A B \in SessionIds \ {A} :
       /\ ( \/ \E ws \in Conns, url \in Urls : CreateSession(ws, A, url)
            \/ \E ws \in Conns : JoinSession(ws, A)
            \/ \E ws \in Conns, state \in JoinUpdates : CrdtUpdate(ws, A, state)
            \/ TimerFire(A) )
          => /\ Held(B)' = Held(B)
             /\ \A f \in sent' : f.msg.sessionId # B
       /\ ( /\ A \in DOMAIN pending
            /\ \E ws \in Conns, state \in JoinUpdates : CrdtUpdate(ws, B, state)
            /\ latestState' # latestState )
          => /\ pending'[B].state = latestState'[B]
             /\ timers'[B] = IF B \in DOMAIN pending THEN timers[B] ELSE timers[B] + 1
             /\ timers'[B] > 0
             /\ Held(A)' = Held(A)]_vars

\* Both sessions have subscribers and state, an update to one session was
\* accepted while the other's window was open, and each has its own pending
\* message and its own timer.
C29_Witness ==
  /\ DOMAIN pending = SessionIds
  /\ \A sid \in SessionIds : timers[sid] = 1 /\ Members(sessions, sid) # {}
  /\ last.op = "CRDT_UPDATE" /\ last.changed
  /\ pending[StrA].state # pending[StrB].state

(***************************************************************************)
(* Properties of the client's outbound coalescing.                         *)
(***************************************************************************)
\* The frame of the last updateState call of the burst.
LastCallFrame ==
  stringify([type |-> "CRDT_UPDATE", sessionId |-> clientLast.call.sessionId,
             state |-> clientLast.call.state])

\* C30 as stated: when the flush timer fires, exactly one CRDT_UPDATE, that of
\* the last updateState call of the burst, is transmitted.
C30_OneUpdateTransmittedAsStated ==
  [][flush => wire' = Append(wire, LastCallFrame)]_vars

\* C30: an updateState call while the flush timer is pending transmits
\* nothing and leaves the timer running; when the timer fires, exactly one
\* CRDT_UPDATE, that of the last call of the burst, is handed to send, which
\* transmits it if the client is ready and queues it otherwise; a queued
\* frame is transmitted when the socket opens unless disconnect has emptied
\* the queue; a call after the flush starts a new timer.
C30_OneUpdatePerBurst ==
  [][/\ (\E sid \in SessionIds, pos \in ClientPositions, playing \in BOOLEAN,
            url \in ClientUrls : updateState(sid, pos, playing, url))
        => /\ wire' = wire /\ queue' = queue
           /\ flushTimer' # Null
           /\ flushTimer # Null => flushTimer' = flushTimer
     /\ flush
        => /\ IF clientState = "ready"
              THEN wire' = Append(wire, LastCallFrame) /\ queue' = queue
              ELSE queue' = Append(queue, LastCallFrame) /\ wire' = wire
           /\ flushTimer' = Null
           /\ clientPending' = Null
     /\ onopen => wire' = wire \o queue /\ queue' = <<>>
     /\ disconnect => wire' = wire /\ queue' = <<>>]_vars

\* A burst of two calls was flushed as one frame while the client was ready,
\* and a later call has been flushed as a frame of its own.
C30_Witness ==
  /\ clientLast.op = "flush"
  /\ clientLast.burst = 1
  /\ Len(wire) = 2
  /\ wire[1].state.ts.l = 2
  /\ wire[2] = clientLast.out
  /\ wire[2].state.ts.l = 3

\* A burst was flushed while the client was not ready: its frame is queued
\* and nothing has been transmitted.
C30_QueuedNotTransmitted ==
  /\ clientLast.op = "flush"
  /\ clientLast.burst = 2
  /\ wire = <<>>
  /\ queue = <<clientLast.out>>

(***************************************************************************)
(* Properties of the decoding of inbound frames.                           *)
(***************************************************************************)
KnownTypes == {"JOIN_SESSION", "CREATE_SESSION", "CRDT_UPDATE"}

\* Frames that are not valid JSON, lack a string type or sessionId, or have
\* an unknown type.
Undecodable(raw) ==
  \/ raw.json # "object"
  \/ ~IsString(raw.type)
  \/ ~IsString(raw.sessionId)
  \/ raw.type.string \notin KnownTypes

\* Frames with a valid discriminant and session id whose payload is not of
\* the schema: CREATE_SESSION without a string url, CRDT_UPDATE without a
\* well-formed state.
SchemaInvalid(raw) ==
  /\ ~Undecodable(raw)
  /\ \/ raw.type.string = "CREATE_SESSION" /\ ~IsString(raw.url)
     \/ raw.type.string = "CRDT_UPDATE" /\ raw.state \notin DecodeStates

\* C25: a frame that is not valid JSON, lacks a string type or sessionId, or
\* has an unknown type is dropped: sessions, latestState and pending are
\* unchanged, nothing is sent, and the connection stays open.
C25_UndecodableDropped ==
  [][\A ws \in Conns, raw \in RawFrames :
       (Undecodable(raw) /\ onMessage(ws, raw))
         => /\ last'.op = "message" /\ last'.outcome = "dropped"
            /\ sessions' = sessions
            /\ latestState' = latestState
            /\ pending' = pending
            /\ timers' = timers
            /\ sent' = {}
            /\ readyState'[ws] = "OPEN"]_vars

\* C26: a message with a valid discriminant that is not of the schema is
\* dropped with no state mutated and no broadcast scheduled, whether or not
\* the session has state.
C26_SchemaInvalidDropped ==
  [][\A ws \in Conns, raw \in RawFrames :
       (SchemaInvalid(raw) /\ onMessage(ws, raw))
         => /\ sessions' = sessions
            /\ latestState' = latestState
            /\ pending' = pending
            /\ timers' = timers]_vars

\* C27: the message handler raises no exception, whatever the frame.
C27_HandlerNeverThrows ==
  last.op = "message" => last.outcome # "threw"

(***************************************************************************)
(* Properties of the client's playback position.                           *)
(***************************************************************************)
\* C31: for every state the component receives for its session, the position
\* handed to the player is pos when playing is false and
\* pos + (receivedTime - ts.p) / 1000 when playing is true (in thousandths of
\* a second: pos * 1000 + receivedTime - ts.p).
C31_EstimatedPosition ==
  watchLast.op \in {"SESSION_SNAPSHOT", "STATE_BROADCAST"}
  /\ watchLast.message.sessionId = StrA
  => playheadState.pos =
       watchLast.message.state.pos * 1000
       + (IF watchLast.message.state.playing
          THEN watchLast.receivedTime - watchLast.message.state.ts.p ELSE 0)

(***************************************************************************)
(* Properties of acceptance, of the coalescing timers and of eviction.     *)
(***************************************************************************)
\* C32: a CRDT_UPDATE stores its state and schedules its broadcast if and
\* only if the session has no stored state or the update's ts compares
\* strictly greater than the stored ts; otherwise, and so on equal ts
\* whatever the payload, latestState, pending and the timers are unchanged.
C32_AcceptedIffNewer ==
  [][\A ws \in Conns, sid \in SessionIds, state \in UpdateStates :
       CrdtUpdate(ws, sid, state) =>
         IF \/ sid \notin DOMAIN latestState
            \/ compareHLC(state.ts, latestState[sid].ts) > 0
         THEN /\ latestState' = Put(latestState, sid, state)
              /\ latestState' # latestState
              /\ sid \in DOMAIN pending' /\ pending'[sid].state = state
              /\ timers'[sid] > 0
         ELSE /\ latestState' = latestState
              /\ pending' = pending
              /\ timers' = timers]_vars

\* An update whose ts equals the stored ts and whose payload differs from the
\* stored one has been absorbed.
C32_Witness ==
  /\ idem # Undefined
  /\ last.op = "CRDT_UPDATE" /\ last.had /\ ~last.changed
  /\ idem.update.ts = latestState[last.sessionId].ts
  /\ idem.update.pos # latestState[last.sessionId].pos
  /\ idem.update.playing # latestState[last.sessionId].playing

\* C33: each session has at most one timer callback outstanding, and has a
\* pending message exactly when it has one; a CRDT_UPDATE that changes the
\* state while the window is open replaces the pending message by the new
\* state and leaves the timers as they are.
C33_OneTimerPerWindow ==
  [][\A sid \in SessionIds :
       /\ timers'[sid] <= 1
       /\ sid \in DOMAIN pending' <=> timers'[sid] = 1
       /\ \A ws \in Conns, state \in JoinUpdates :
            (/\ sid \in DOMAIN pending
             /\ CrdtUpdate(ws, sid, state)
             /\ latestState' # latestState)
            => /\ pending'[sid] = [type |-> "STATE_BROADCAST", sessionId |-> sid,
                                   state |-> state]
               /\ timers' = timers]_vars

\* The window that the session's first update opened is still open, and a
\* later update has changed the state and the pending message.
C33_Witness ==
  \E sid \in FocusSessions :
    /\ sid \in DOMAIN owed /\ ~owed[sid].paid
    /\ last.op = "CRDT_UPDATE" /\ last.sessionId = sid /\ last.had /\ last.changed
    /\ timers[sid] = 1
    /\ pending[sid].state = latestState[sid]

\* C34 as stated: no SESSION_SNAPSHOT or STATE_BROADCAST carries a state that
\* the session stored before its last eviction and has not stored again since.
C34_NoStateFromBeforeEviction ==
  [][\A f \in sent' :
       f.msg.type \in {"SESSION_SNAPSHOT", "STATE_BROADCAST"}
         => f.msg.state \notin stale[f.msg.sessionId]]_vars

\* C35 as stated: when a session has stored state and no window is open, the
\* state of the last message sent to each connection subscribed to the
\* session is the stored state.
C35_ConvergedAtQuiescence ==
  \A sid \in SessionIds :
    (sid \in DOMAIN latestState /\ sid \notin DOMAIN pending) =>
      \A ws \in Subscribers(sid) : lastMsg[ws][sid] = latestState[sid]

\* C36 as stated: a STATE_BROADCAST sent to a connection carries a ts that
\* compares strictly greater than that of the last STATE_BROADCAST the
\* connection was sent for the session.
C36_BroadcastsIncrease ==
  [][\A f \in sent' :
       (f.msg.type = "STATE_BROADCAST"
          /\ lastBroadcast[f.to][f.msg.sessionId] # Undefined)
         => compareHLC(f.msg.state.ts, lastBroadcast[f.to][f.msg.sessionId]) > 0]_vars

(***************************************************************************)
(* Properties of the subscriber sets.                                      *)
(***************************************************************************)
\* C37: after every handler, no session id in sessions has an empty
\* subscriber set; an id enters sessions with exactly one subscriber, and
\* leaves it in the close of its only subscriber.
C37_NoEmptyContainer ==
  [][/\ \A sid \in DOMAIN sessions' : sessions'[sid] # {}
     /\ \A sid \in DOMAIN sessions' \ DOMAIN sessions :
          \E ws \in Conns :
            /\ sessions'[sid] = {ws}
            /\ \/ JoinSession(ws, sid)
               \/ \E url \in Urls : CreateSession(ws, sid, url)
     /\ \A sid \in DOMAIN sessions \ DOMAIN sessions' :
          \E ws \in Conns : sessions[sid] = {ws} /\ Close(ws)]_vars

\* A close has removed the only subscriber of one session, which is gone
\* from sessions, and one of two subscribers of another, which is kept.
C37_Witness ==
  /\ event # Undefined /\ event.op = "close"
  /\ \E sid \in event.joined : sid \notin DOMAIN sessions
  /\ \E sid \in event.joined : sid \in DOMAIN sessions /\ sessions[sid] # {}

\* C38: a JOIN_SESSION or CREATE_SESSION leaves the subscriber set as it was
\* with the sender in it, however often the sender has subscribed before;
\* a firing timer sends exactly one frame to each open subscriber and none
\* to anyone else; one close removes the connection from every subscriber
\* set.
C38_SubscriptionIdempotent ==
  [][/\ \A ws \in Conns, sid \in SessionIds :
          (JoinSession(ws, sid) \/ \E url \in Urls : CreateSession(ws, sid, url))
            => Subscribers(sid)' = Subscribers(sid) \cup {ws}
     /\ \A sid \in SessionIds :
          TimerFire(sid) =>
            /\ Recipients' = OpenSubscribers(sid)
            /\ \A ws \in OpenSubscribers(sid) :
                 Cardinality({f \in sent' : f.to = ws}) = 1
     /\ \A ws \in Conns :
          Close(ws) => \A sid \in SessionIds : ws \notin Subscribers(sid)']_vars

\* A connection that subscribed more than once has been sent the broadcast
\* of a firing timer, once.
C38_Witness ==
  /\ last.op = "timer"
  /\ \E ws \in Recipients :
       /\ joins[ws][last.sessionId] = 2
       /\ Cardinality({f \in sent : f.to = ws}) = 1
       /\ Cardinality(Subscribers(last.sessionId)) = 2

(***************************************************************************)
(* Properties relating the coalescing server to the immediate draft.       *)
(***************************************************************************)
\* C39 as stated: after every step both servers hold the same sessions and
\* latestState, and the state of every STATE_BROADCAST the coalescing server
\* sends is the state of a STATE_BROADCAST the draft has sent for the session.
C39_RefinesImmediateAsStated ==
  [][/\ sessions' = dSessions'
     /\ latestState' = dLatestState'
     /\ \A f \in sent' :
          f.msg.type = "STATE_BROADCAST"
            => f.msg.state \in dDelivered'[f.msg.sessionId]]_vars

\* C39: after every step both servers hold the same sessions and
\* latestState, and the state of every STATE_BROADCAST the coalescing server
\* sends is one the draft has passed to broadcast for the session.
C39_RefinesImmediate ==
  [][/\ sessions' = dSessions'
     /\ latestState' = dLatestState'
     /\ \A f \in sent' :
          f.msg.type = "STATE_BROADCAST"
            => f.msg.state \in dCalled'[f.msg.sessionId]]_vars

\* The coalescing server's timer has sent one broadcast for a session for
\* which the draft has sent two.
C39_Witness ==
  /\ last.op = "timer"
  /\ Recipients # {}
  /\ \A f \in sent : f.msg.state \in dDelivered[last.sessionId]
  /\ Cardinality(dDelivered[last.sessionId]) = 2
  /\ Cardinality({f.msg.state : f \in sent}) = 1
  /\ latestState = dLatestState /\ last.sessionId \in DOMAIN latestState

(***************************************************************************)
(* Properties of the WSClient's sockets.                                   *)
(***************************************************************************)
\* C40: with disconnect never called, the frames that went out are frames
\* handed to send, each at most once and in call order; the queued frames are
\* the later calls in call order; and at most one socket is CONNECTING or
\* OPEN at any time.
C40_SentOnceInOrder ==
  /\ Len(wireCalls) = Len(wire) /\ Len(queuedCalls) = Len(queue)
  /\ \A i \in DOMAIN wire : wire[i] = handed[wireCalls[i].call]
  /\ \A i \in DOMAIN queue : queue[i] = handed[queuedCalls[i]]
  /\ \A i, j \in DOMAIN wireCalls : i < j => wireCalls[i].call < wireCalls[j].call
  /\ \A i, j \in DOMAIN queuedCalls : i < j => queuedCalls[i] < queuedCalls[j]
  /\ \A i \in DOMAIN wireCalls, j \in DOMAIN queuedCalls :
       wireCalls[i].call < queuedCalls[j]
  /\ Cardinality({s \in DOMAIN sockets : sockets[s] \in {"CONNECTING", "OPEN"}}) <= 1

\* Two queued frames have gone out on the client's second socket, in call
\* order, after a frame on its first, which has closed.
C40_Witness ==
  /\ Len(sockets) = 2
  /\ sockets[1] = "CLOSED" /\ sockets[2] = "OPEN"
  /\ Len(wireCalls) = 3
  /\ wireCalls[1].socket = 1
  /\ wireCalls[2].socket = 2 /\ wireCalls[3].socket = 2
  /\ clientState = "ready"

====
